---- MODULE Spec2Model ----
(***************************************************************************)
(* Multibody structural-constraint engine of SHARPy:                       *)
(*   sharpy/structure/utils/lagrangeconstraints.py  (constraint library)   *)
(*   sharpy/utils/multibody.py                      (split/merge/packing)  *)
(*                                                                         *)
(* Real numbers are modelled by integers; every operation of the code that *)
(* is used on them (sums, products, copies, comparisons of norms) is exact *)
(* on integers.  Python exceptions are modelled by a record               *)
(* [type |-> ..., key |-> ...] stored in the variable raised.              *)
(***************************************************************************)
EXTENDS Integers, Sequences, FiniteSets, TLC

VARIABLES
    MBdict,     \* the multibody dictionary: num_constraints and constraint_%02d entries
    lc_list,    \* list of constraint objects returned by initialize_constraints
    raised,     \* exception raised by the last call ("none" when it returned)
    MB_beam,    \* list of per-body Beam objects
    MB_tstep,   \* list of per-body StructTimeStepInfo objects
    beam,       \* Beam of the composite system
    tstep,      \* StructTimeStepInfo of the composite system
    flat,       \* the flat state vectors q, dqdt, dqddt handed to the packing functions
    LM,         \* matrices returned by the last generate_lagrange_matrix call
    last,       \* the last call: its name, arguments and what it returned
    calls       \* number of calls made so far

vars == <<MBdict, lc_list, raised, MB_beam, MB_tstep, beam, tstep, flat, LM, last, calls>>
lcVars == <<MBdict, lc_list, LM>>
mbVars == <<MB_beam, MB_tstep, beam, tstep, flat>>

NoException == [type |-> "none", key |-> ""]
None == "None"

(***************************************************************************)
(* Bounds of the model                                                     *)
(***************************************************************************)
\* largest number of constraints of a configuration
MaxConstraints == 3

(***************************************************************************)
(* Small helpers on sequences and 0-based vectors                          *)
(***************************************************************************)
Range(s) == {s[i] : i \in DOMAIN s}

RECURSIVE SumSeq(_)
SumSeq(s) == IF s = <<>> THEN 0 ELSE s[1] + SumSeq(Tail(s))

\* index of the first element of s that is not in S (0 when there is none)
FirstMissing(s, S) ==
    IF \A i \in DOMAIN s : s[i] \in S THEN 0
    ELSE CHOOSE i \in DOMAIN s : s[i] \notin S /\ \A j \in 1..(i-1) : s[j] \in S

(***************************************************************************)
(* Basic structures: the registry dict_of_lc filled by @lagrangeconstraint *)
(***************************************************************************)
\* the classes decorated with @lagrangeconstraint, in the order of the file
dict_of_lc ==
    { "hinge_node_FoR", "hinge_node_FoR_constant_vel", "spherical_node_FoR",
      "free", "spherical_FoR", "hinge_FoR", "hinge_FoR_wrtG",
      "fully_constrained_node_FoR", "constant_rot_vel_FoR", "constant_vel_FoR",
      "lin_vel_node_wrtA", "lin_vel_node_wrtG" }

\* a class of the file that is commented out, hence not registered
UnregisteredKind == "hinge_node_FoR_constant_rotation"

\* every class but 'free' with the three equations of a spherical joint
n_eq_of_uniform3(kind) == IF kind = "free" THEN 0 ELSE 3

\* self._n_eq set by each class's __init__
n_eq_of(kind) ==
    CASE kind = "hinge_node_FoR"              -> 5
      [] kind = "hinge_node_FoR_constant_vel" -> 6
      [] kind = "spherical_node_FoR"          -> 3
      [] kind = "free"                        -> 0
      [] kind = "spherical_FoR"               -> 3
      [] kind = "hinge_FoR"                   -> 5
      [] kind = "hinge_FoR_wrtG"              -> 5
      [] kind = "fully_constrained_node_FoR"  -> 6
      [] kind = "constant_rot_vel_FoR"        -> 3
      [] kind = "constant_vel_FoR"            -> 6
      [] kind = "lin_vel_node_wrtA"           -> 3
      [] kind = "lin_vel_node_wrtG"           -> 3

\* self.required_parameters set by each class's __init__
required_parameters(kind) ==
    CASE kind = "hinge_node_FoR"              -> <<"node_in_body", "body", "body_FoR", "rot_axisB">>
      [] kind = "hinge_node_FoR_constant_vel" -> <<"node_in_body", "body", "body_FoR", "rot_axisB", "rot_vel">>
      [] kind = "spherical_node_FoR"          -> <<"node_in_body", "body", "body_FoR">>
      [] kind = "free"                        -> <<>>
      [] kind = "spherical_FoR"               -> <<"body_FoR">>
      [] kind = "hinge_FoR"                   -> <<"body_FoR", "rot_axis_AFoR">>
      [] kind = "hinge_FoR_wrtG"              -> <<"body_FoR", "rot_axis_AFoR">>
      [] kind = "fully_constrained_node_FoR"  -> <<"node_in_body", "body", "body_FoR">>
      [] kind = "constant_rot_vel_FoR"        -> <<"FoR_body", "rot_vel">>
      [] kind = "constant_vel_FoR"            -> <<"FoR_body", "vel">>
      [] kind = "lin_vel_node_wrtA"           -> <<"velocity", "body_number", "node_number">>
      [] kind = "lin_vel_node_wrtG"           -> <<"velocity", "body_number", "node_number">>

\* a lookup that falls back to the kind 'free' when the string is no key
lc_from_string_default(string) ==
    [ok |-> TRUE, cls |-> IF string \in dict_of_lc THEN string ELSE "free"]

\* lc_from_string: dict_of_lc[string]; a KeyError when the string is no key
lc_from_string(string) ==
    IF string \in dict_of_lc
    THEN [ok |-> TRUE, cls |-> string]
    ELSE [ok |-> FALSE, exc |-> [type |-> "KeyError", key |-> string]]

(***************************************************************************)
(* initialise of each class: the MBdict_entry keys it reads, in the order  *)
(* of the statements, each as <<attribute set, key read>>                  *)
(***************************************************************************)
initialise_reads(kind) ==
    CASE kind = "hinge_node_FoR" ->
            << <<"node_number", "node_in_body">>, <<"node_body", "body">>,
               <<"FoR_body", "body_FoR">>, <<"rot_axisB", "rot_axisB">> >>
      [] kind = "hinge_node_FoR_constant_vel" ->
            << <<"node_number", "node_in_body">>, <<"node_body", "body">>,
               <<"FoR_body", "body_FoR">>, <<"rot_axisB", "rot_axisB">>,
               <<"rot_vel", "rot_vel">> >>
      [] kind = "spherical_node_FoR" ->
            << <<"node_number", "node_in_body">>, <<"node_body", "body">>,
               <<"FoR_body", "body_FoR">> >>
      [] kind = "free" -> <<>>
      [] kind = "spherical_FoR" -> << <<"body_FoR", "body_FoR">> >>
      [] kind = "hinge_FoR" ->
            << <<"body_FoR", "body_FoR">>, <<"rot_axis", "rot_axis_AFoR">> >>
      [] kind = "hinge_FoR_wrtG" ->
            << <<"body_FoR", "body_FoR">>, <<"rot_axis", "rot_axis_AFoR">> >>
      [] kind = "fully_constrained_node_FoR" ->
            << <<"node_number", "node_in_body">>, <<"node_body", "body">>,
               <<"FoR_body", "body_FoR">> >>
      [] kind = "constant_rot_vel_FoR" ->
            << <<"rot_vel", "rot_vel">>, <<"FoR_body", "FoR_body">> >>
      [] kind = "constant_vel_FoR" ->
            << <<"vel", "vel">>, <<"FoR_body", "FoR_body">> >>
      [] kind = "lin_vel_node_wrtA" ->
            << <<"vel", "velocity">>, <<"body_number", "body_number">>,
               <<"node_number", "node_number">> >>
      [] kind = "lin_vel_node_wrtG" ->
            << <<"vel", "velocity">>, <<"body_number", "body_number">>,
               <<"node_number", "node_number">> >>

\* the kinds whose initialise sets self.indep = []
has_indep(kind) == kind \in {"hinge_node_FoR", "hinge_node_FoR_constant_vel"}

\* an initialise that returns the index it was given: the next constraint
\* starts at the same equation
initialise_no_advance(kind, MBdict_entry, ieq) ==
    LET reads == initialise_reads(kind)
        keys  == [i \in DOMAIN reads |-> reads[i][2]]
        miss  == FirstMissing(keys, DOMAIN MBdict_entry)
        attrs == {reads[i][1] : i \in DOMAIN reads}
        keyof(a) == (CHOOSE i \in DOMAIN reads : reads[i][1] = a)
    IN  IF miss # 0
        THEN [ok |-> FALSE, exc |-> [type |-> "KeyError", key |-> keys[miss]]]
        ELSE [ok |-> TRUE,
              lc |-> [lc_id |-> kind,
                      n_eq  |-> n_eq_of(kind),
                      ieq   |-> ieq,
                      indep |-> IF has_indep(kind) THEN <<>> ELSE None,
                      attr  |-> [a \in attrs |-> MBdict_entry[reads[keyof(a)][2]]]],
              ret |-> ieq]

\* cls() followed by lc.initialise(MBdict_entry, ieq): the constraint object and
\* the returned self._ieq + self._n_eq, or the KeyError of the first key that
\* MBdict_entry lacks
initialise(kind, MBdict_entry, ieq) ==
    LET reads == initialise_reads(kind)
        keys  == [i \in DOMAIN reads |-> reads[i][2]]
        miss  == FirstMissing(keys, DOMAIN MBdict_entry)
        attrs == {reads[i][1] : i \in DOMAIN reads}
        keyof(a) == (CHOOSE i \in DOMAIN reads : reads[i][1] = a)
    IN  IF miss # 0
        THEN [ok |-> FALSE, exc |-> [type |-> "KeyError", key |-> keys[miss]]]
        ELSE [ok |-> TRUE,
              lc |-> [lc_id |-> kind,
                      n_eq  |-> n_eq_of(kind),
                      ieq   |-> ieq,
                      indep |-> IF has_indep(kind) THEN <<>> ELSE None,
                      attr  |-> [a \in attrs |-> MBdict_entry[reads[keyof(a)][2]]]],
              ret |-> ieq + n_eq_of(kind)]

\* get_n_eq of every class: return self._n_eq
get_n_eq(lc) == lc.n_eq

\* "constraint_%02d" % iconstraint
constraint_key(iconstraint) ==
    <<"constraint_00", "constraint_01", "constraint_02", "constraint_03",
      "constraint_04", "constraint_05">>[iconstraint + 1]

(***************************************************************************)
(* Functions to interact with the library                                  *)
(***************************************************************************)
\* the loop body of initialize_constraints from iconstraint on, given the list
\* built so far and the running index_eq
RECURSIVE initialize_constraints_loop(_, _, _, _)
initialize_constraints_loop(dict, iconstraint, acc, index_eq) ==
    IF iconstraint >= dict.num_constraints
    THEN [ok |-> TRUE, lc_list |-> acc]
    ELSE IF iconstraint \notin DOMAIN dict.constraint
    THEN [ok |-> FALSE, exc |-> [type |-> "KeyError", key |-> constraint_key(iconstraint)]]
    ELSE IF "behaviour" \notin DOMAIN dict.constraint[iconstraint]
    THEN [ok |-> FALSE, exc |-> [type |-> "KeyError", key |-> "behaviour"]]
    ELSE LET entry == dict.constraint[iconstraint]
             cls   == lc_from_string(entry["behaviour"])
         IN  IF ~cls.ok THEN [ok |-> FALSE, exc |-> cls.exc]
             ELSE LET r == initialise(cls.cls, entry, index_eq)
                  IN  IF ~r.ok THEN [ok |-> FALSE, exc |-> r.exc]
                      ELSE initialize_constraints_loop(dict, iconstraint + 1,
                                                       Append(acc, r.lc), r.ret)

initialize_constraints(dict) == initialize_constraints_loop(dict, 0, <<>>, 0)

\* define_num_LM_eq: the sum of get_n_eq() over the list
define_num_LM_eq(list) == SumSeq([i \in DOMAIN list |-> get_n_eq(list[i])])

remove_constraint_counting(dict, constraint) ==
    [dict EXCEPT !.num_constraints = @ - 1,
                 !.constraint = [k \in (DOMAIN @) \ {constraint} |-> @[k]]]

\* remove_constraint: del MBdict[constraint]; num_constraints -= 1; a KeyError
\* of the del is caught and nothing is changed
remove_constraint(dict, constraint) ==
    IF constraint \in DOMAIN dict.constraint
    THEN [dict EXCEPT !.num_constraints = @ - 1,
                      !.constraint = [k \in (DOMAIN @) \ {constraint} |-> @[k]]]
    ELSE dict

(***************************************************************************)
(* Auxiliar functions: DOF addressing.  MB_beam is a 0-based list of Beam  *)
(* records; num_dof stands for num_dof.value.                              *)
(***************************************************************************)
Len0(v) == Cardinality(DOMAIN v)

\* the for loop of define_node_dof over ibody in range(node_body)
\* a loop that adds the 10 frame entries of every body, free or not
RECURSIVE define_node_dof_loop_all10(_, _, _, _)
define_node_dof_loop_all10(mb, ibody, node_body, node_dof) ==
    IF ibody >= node_body THEN node_dof
    ELSE define_node_dof_loop_all10(mb, ibody + 1, node_body,
                                    node_dof + mb[ibody].num_dof + 10)

RECURSIVE define_node_dof_loop(_, _, _, _)
define_node_dof_loop(mb, ibody, node_body, node_dof) ==
    IF ibody >= node_body THEN node_dof
    ELSE define_node_dof_loop(mb, ibody + 1, node_body,
            node_dof + mb[ibody].num_dof
                     + (IF mb[ibody].FoR_movement = "free" THEN 10 ELSE 0))

define_node_dof(mb, node_body, num_node) ==
    define_node_dof_loop(mb, 0, node_body, 0) + 6 * mb[node_body].vdof[num_node]

\* the for loop of define_FoR_dof over ibody in range(FoR_body)
RECURSIVE define_FoR_dof_loop(_, _, _, _)
define_FoR_dof_loop(mb, ibody, FoR_body, FoR_dof) ==
    IF ibody >= FoR_body THEN FoR_dof
    ELSE define_FoR_dof_loop(mb, ibody + 1, FoR_body,
            FoR_dof + mb[ibody].num_dof
                    + (IF mb[ibody].FoR_movement = "free" THEN 10 ELSE 0))

define_FoR_dof(mb, FoR_body) ==
    define_FoR_dof_loop(mb, 0, FoR_body, 0) + mb[FoR_body].num_dof

(***************************************************************************)
(* numpy arrays: 0-based functions.  v[a:b], v[:-k], v[-k:], v[a:b] = w    *)
(***************************************************************************)
Zeros(n) == [i \in 0..(n-1) |-> 0]
Slice(v, a, b) == [i \in 0..(b-a-1) |-> v[a+i]]
DropLast(v, k) == Slice(v, 0, Len0(v) - k)
TakeLast(v, k) == Slice(v, Len0(v) - k, Len0(v))
SetSlice(v, a, w) ==
    [i \in DOMAIN v |-> IF a <= i /\ i < a + Len0(w) THEN w[i-a] ELSE v[i]]
SetLast(v, w) == SetSlice(v, Len0(v) - Len0(w), w)
\* every entry of a 1-d or 2-d array multiplied by 0 (x *= 0)
ZeroRows(m) == [i \in DOMAIN m |-> [j \in DOMAIN m[i] |-> 0]]
ZeroPsi(p) == [e \in DOMAIN p |-> ZeroRows(p[e])]
\* a[rows, :] = b, rows a 0-based list of row numbers of a
SetRows(a, rows, b) ==
    [i \in DOMAIN a |->
        IF \E k \in DOMAIN rows : rows[k] = i
        THEN b[CHOOSE k \in DOMAIN rows : rows[k] = i]
        ELSE a[i]]
\* a[rows, :]
GetRows(a, rows) == [k \in DOMAIN rows |-> a[rows[k]]]

(***************************************************************************)
(* Beam.get_body and StructTimeStepInfo.get_body (sharpy.structure.models  *)
(* .beam and sharpy.utils.datastructures): copies of the body's nodes and  *)
(* elements and of its own frame of reference, held in the database rows   *)
(* of the body.  The state vectors of a body have num_dof + 10 entries,    *)
(* the last 4 of dqdt the quaternion and of dqddt the quaternion rate.     *)
(***************************************************************************)
Beam_get_body(b, ibody) ==
    [num_dof          |-> b.body_num_dof[ibody],
     FoR_movement     |-> None,
     vdof             |-> b.body_vdof[ibody],
     node_master_elem |-> b.body_node_master_elem[ibody],
     global_nodes_num |-> b.body_nodes[ibody],
     global_elems_num |-> b.body_elems[ibody],
     ini_info         |-> [pos     |-> GetRows(b.ini_info.pos, b.body_nodes[ibody]),
                           pos_dot |-> GetRows(b.ini_info.pos_dot, b.body_nodes[ibody]),
                           psi_dot |-> GetRows(b.ini_info.psi_dot, b.body_elems[ibody]),
                           for_pos |-> b.ini_info.for_pos,
                           quat    |-> b.ini_info.quat],
     timestep_info    |-> [pos_dot |-> GetRows(b.timestep_info.pos_dot, b.body_nodes[ibody]),
                           psi_dot |-> GetRows(b.timestep_info.psi_dot, b.body_elems[ibody])]]

StructTimeStepInfo_get_body(ts_info, b, num_dof_ibody, ibody) ==
    LET nodes == b.body_nodes[ibody]
        elems == b.body_elems[ibody]
    IN  [pos      |-> GetRows(ts_info.pos, nodes),
         pos_dot  |-> GetRows(ts_info.pos_dot, nodes),
         pos_ddot |-> GetRows(ts_info.pos_ddot, nodes),
         psi      |-> GetRows(ts_info.psi, elems),
         psi_dot  |-> GetRows(ts_info.psi_dot, elems),
         psi_ddot |-> GetRows(ts_info.psi_ddot, elems),
         gravity_forces           |-> GetRows(ts_info.gravity_forces, nodes),
         forces_constraints_nodes |-> GetRows(ts_info.forces_constraints_nodes, nodes),
         forces_constraints_FoR   |-> ts_info.forces_constraints_FoR,
         q     |-> Zeros(num_dof_ibody + 10),
         dqdt  |-> SetLast(Zeros(num_dof_ibody + 10), ts_info.mb_quat[ibody]),
         dqddt |-> SetLast(Zeros(num_dof_ibody + 10), ts_info.mb_dquatdt[ibody]),
         for_pos |-> ts_info.mb_FoR_pos[ibody],
         for_vel |-> ts_info.mb_FoR_vel[ibody],
         for_acc |-> ts_info.mb_FoR_acc[ibody],
         quat    |-> ts_info.mb_quat[ibody],
         mb_FoR_pos |-> ts_info.mb_FoR_pos,
         mb_FoR_vel |-> ts_info.mb_FoR_vel,
         mb_FoR_acc |-> ts_info.mb_FoR_acc,
         mb_quat    |-> ts_info.mb_quat,
         mb_dquatdt |-> ts_info.mb_dquatdt]

(***************************************************************************)
(* multibody.py                                                            *)
(***************************************************************************)
\* an update that copies the frame position and the quaternion of the composite
\* system into row 0 of the database
update_mb_db_before_split_recording(ts_info, b, mb_data_dict, ts) ==
    [ts_info EXCEPT !.mb_FoR_pos[0] = ts_info.for_pos, !.mb_quat[0] = ts_info.quat]

\* update_mb_db_before_split: its first statement is return
update_mb_db_before_split(ts_info, b, mb_data_dict, ts) == ts_info

\* a split that zeroes the velocities at every step
split_zeroes_always(ts) == ts >= 0

\* a condition that zeroes the velocities at every step up to 1
split_zeroes_upto1(ts) == ts <= 1

\* if ts == 1: the velocities of the body are zeroed
split_zeroes(ts) == ts = 1

\* one pass of the for loop of split_multibody: the body's beam and tstep
split_multibody_body(b, ts_info, mb_data_dict, ts, ibody) ==
    LET ibody_beam0  == Beam_get_body(b, ibody)
        ibody_tstep0 == StructTimeStepInfo_get_body(ts_info, b, ibody_beam0.num_dof, ibody)
        ibody_beam1  == [ibody_beam0 EXCEPT !.FoR_movement = mb_data_dict.body[ibody].FoR_movement]
    IN  IF split_zeroes(ts)
        THEN [beam  |-> [ibody_beam1 EXCEPT
                            !.ini_info.pos_dot      = ZeroRows(@),
                            !.timestep_info.pos_dot = ZeroRows(@),
                            !.ini_info.psi_dot      = ZeroPsi(@),
                            !.timestep_info.psi_dot = ZeroPsi(@)],
              tstep |-> [ibody_tstep0 EXCEPT
                            !.pos_dot = ZeroRows(@),
                            !.psi_dot = ZeroPsi(@)]]
        ELSE [beam |-> ibody_beam1, tstep |-> ibody_tstep0]

\* split_multibody: returns MB_beam, MB_tstep
split_multibody(b, ts_info, mb_data_dict, ts) ==
    LET ts_info1 == update_mb_db_before_split(ts_info, b, mb_data_dict, ts)
        bodies   == [ibody \in 0..(b.num_bodies - 1) |->
                        split_multibody_body(b, ts_info1, mb_data_dict, ts, ibody)]
    IN  [tstep    |-> ts_info1,
         MB_beam  |-> [ibody \in DOMAIN bodies |-> bodies[ibody].beam],
         MB_tstep |-> [ibody \in DOMAIN bodies |-> bodies[ibody].tstep]]

\* an assertion that lets every body pass
mb_storage_unchecked(t, ibody) == TRUE

\* the condition asserted for body ibody
mb_storage_consistent(t, ibody) == t.mb_dquatdt[ibody] = TakeLast(t.dqddt, 4)

\* update_mb_dB_before_merge: the loop from body ibody on; the assertion of a
\* body is made after its four frame rows are written
RECURSIVE update_mb_dB_before_merge_loop(_, _, _)
update_mb_dB_before_merge_loop(ts_info, mbt, ibody) ==
    IF ibody >= Len0(mbt) THEN [ok |-> TRUE, tstep |-> ts_info]
    ELSE LET t1 == [ts_info EXCEPT
                        !.mb_FoR_pos[ibody] = mbt[ibody].for_pos,
                        !.mb_FoR_vel[ibody] = mbt[ibody].for_vel,
                        !.mb_FoR_acc[ibody] = mbt[ibody].for_acc,
                        !.mb_quat[ibody]    = mbt[ibody].quat]
         IN  IF ~mb_storage_consistent(mbt[ibody], ibody)
             THEN [ok |-> FALSE, tstep |-> t1, ibody |-> ibody,
                   exc |-> [type |-> "AssertionError", key |-> "Error in multibody storage"]]
             ELSE update_mb_dB_before_merge_loop(
                      [t1 EXCEPT !.mb_dquatdt[ibody] = TakeLast(mbt[ibody].dqddt, 4)],
                      mbt, ibody + 1)

update_mb_dB_before_merge(ts_info, mbt) == update_mb_dB_before_merge_loop(ts_info, mbt, 0)

\* an advance that counts the 10 frame entries of a free body
merge_next_dof_free10(mbb, ibody, first_dof) ==
    first_dof + mbb[ibody].num_dof + (IF mbb[ibody].FoR_movement = "free" THEN 10 ELSE 0)

\* first_dof += ibody_num_dof
merge_next_dof(mbb, ibody, first_dof) == first_dof + mbb[ibody].num_dof

\* the body of the for loop of merge_multibody, from body ibody on
RECURSIVE merge_multibody_loop(_, _, _, _, _)
merge_multibody_loop(ts_info, mbt, mbb, ibody, first_dof) ==
    IF ibody >= Len0(mbb) THEN ts_info
    ELSE LET ibody_elems   == mbb[ibody].global_elems_num
             ibody_nodes   == mbb[ibody].global_nodes_num
             t1 == [ts_info EXCEPT
                      !.pos      = SetRows(@, ibody_nodes, mbt[ibody].pos),
                      !.pos_dot  = SetRows(@, ibody_nodes, mbt[ibody].pos_dot),
                      !.pos_ddot = SetRows(@, ibody_nodes, mbt[ibody].pos_ddot),
                      !.psi      = SetRows(@, ibody_elems, mbt[ibody].psi),
                      !.psi_dot  = SetRows(@, ibody_elems, mbt[ibody].psi_dot),
                      !.psi_ddot = SetRows(@, ibody_elems, mbt[ibody].psi_ddot),
                      !.gravity_forces = SetRows(@, ibody_nodes, mbt[ibody].gravity_forces),
                      !.forces_constraints_nodes =
                            SetRows(@, ibody_nodes, mbt[ibody].forces_constraints_nodes),
                      !.forces_constraints_FoR[ibody] = mbt[ibody].forces_constraints_FoR[ibody],
                      !.q     = SetSlice(@, first_dof, DropLast(mbt[ibody].q, 10)),
                      !.dqdt  = SetSlice(@, first_dof, DropLast(mbt[ibody].dqdt, 10)),
                      !.dqddt = SetSlice(@, first_dof, DropLast(mbt[ibody].dqddt, 10)),
                      !.mb_dquatdt[ibody] = TakeLast(mbt[ibody].dqddt, 4)]
         IN  merge_multibody_loop(t1, mbt, mbb, ibody + 1,
                                  merge_next_dof(mbb, ibody, first_dof))

\* the last body taken as the master
merge_master_last(mbt) == mbt[Len0(mbt) - 1]

\* MB_tstep[0]: the body whose frame and last 10 state entries the composite takes
merge_master(mbt) == mbt[0]

\* merge_multibody: the composite tstep it leaves, and the exception if any
merge_multibody(mbt, mbb, b, ts_info) ==
    LET db == update_mb_dB_before_merge(ts_info, mbt)
    IN  IF ~db.ok THEN [ok |-> FALSE, tstep |-> db.tstep, exc |-> db.exc]
        ELSE LET t1 == merge_multibody_loop(db.tstep, mbt, mbb, 0, 0)
             IN  [ok |-> TRUE,
                  tstep |-> [t1 EXCEPT
                      !.q     = SetLast(@, TakeLast(merge_master(mbt).q, 10)),
                      !.dqdt  = SetLast(@, TakeLast(merge_master(mbt).dqdt, 10)),
                      !.dqddt = SetLast(@, TakeLast(merge_master(mbt).dqddt, 10)),
                      !.for_pos = merge_master(mbt).for_pos,
                      !.for_vel = merge_master(mbt).for_vel,
                      !.for_acc = merge_master(mbt).for_acc,
                      !.quat    = merge_master(mbt).quat]]

(***************************************************************************)
(* xbeamlib: the mappings between the state vectors of a body and its node *)
(* fields.  The unconstrained node n of a body owns the 6 entries that     *)
(* start at 6 * vdof[n]: 3 of position, 3 of the rotation vector held by   *)
(* its master element.  The xbeam_ mappings of a free body also map the    *)
(* frame velocity and quaternion (dqdt) and the frame acceleration (dqddt).*)
(***************************************************************************)
NodeOfDof(b, k) == CHOOSE n \in DOMAIN b.vdof : b.vdof[n] = k
IsMasterOf(b, n, e, j) == b.node_master_elem[n] = <<e, j>>

\* node fields read from a state vector v
state2nodes(b, v, field) ==
    [n \in DOMAIN field |->
        IF b.vdof[n] >= 0 THEN Slice(v, 6 * b.vdof[n], 6 * b.vdof[n] + 3) ELSE field[n]]
state2elems(b, v, field) ==
    [e \in DOMAIN field |-> [j \in DOMAIN field[e] |->
        IF \E n \in DOMAIN b.vdof : IsMasterOf(b, n, e, j) /\ b.vdof[n] >= 0
        THEN LET n == CHOOSE m \in DOMAIN b.vdof : IsMasterOf(b, m, e, j)
             IN  Slice(v, 6 * b.vdof[n] + 3, 6 * b.vdof[n] + 6)
        ELSE field[e][j]]]
\* the first num_dof entries of a state vector v written from node fields
nodes2state(b, v, pfield, rfield) ==
    [i \in DOMAIN v |->
        IF i < b.num_dof
        THEN LET n == NodeOfDof(b, i \div 6)
                 c == i % 6
                 m == b.node_master_elem[n]
             IN  IF c < 3 THEN pfield[n][c] ELSE rfield[m[1]][m[2]][c - 3]
        ELSE v[i]]

cbeam3_solv_state2disp(b, t) ==
    [t EXCEPT !.pos     = state2nodes(b, t.q, @),
              !.psi     = state2elems(b, t.q, @),
              !.pos_dot = state2nodes(b, t.dqdt, @),
              !.psi_dot = state2elems(b, t.dqdt, @)]
cbeam3_solv_state2accel(b, t) ==
    [t EXCEPT !.pos_ddot = state2nodes(b, t.dqddt, @),
              !.psi_ddot = state2elems(b, t.dqddt, @)]
cbeam3_solv_disp2state(b, t) ==
    [t EXCEPT !.q    = nodes2state(b, @, t.pos, t.psi),
              !.dqdt = nodes2state(b, @, t.pos_dot, t.psi_dot)]
cbeam3_solv_accel2state(b, t) ==
    [t EXCEPT !.dqddt = nodes2state(b, @, t.pos_ddot, t.psi_ddot)]

xbeam_solv_state2disp(b, t) ==
    [cbeam3_solv_state2disp(b, t) EXCEPT
        !.for_vel = Slice(t.dqdt, b.num_dof, b.num_dof + 6),
        !.quat    = Slice(t.dqdt, b.num_dof + 6, b.num_dof + 10)]
xbeam_solv_state2accel(b, t) ==
    [cbeam3_solv_state2accel(b, t) EXCEPT
        !.for_acc = Slice(t.dqddt, b.num_dof, b.num_dof + 6)]
xbeam_solv_disp2state(b, t) ==
    [cbeam3_solv_disp2state(b, t) EXCEPT
        !.dqdt = SetSlice(SetSlice(nodes2state(b, t.dqdt, t.pos_dot, t.psi_dot),
                                   b.num_dof, t.for_vel),
                          b.num_dof + 6, t.quat)]
\* what the mapping leaves in the last 4 entries of dqddt is not known here:
\* written is either "kept" or "zero"
xbeam_solv_accel2state(b, t, written) ==
    [cbeam3_solv_accel2state(b, t) EXCEPT
        !.dqddt = LET d == SetSlice(nodes2state(b, t.dqddt, t.pos_ddot, t.psi_ddot),
                                    b.num_dof, t.for_acc)
                  IN  IF written = "zero" THEN SetLast(d, Zeros(4)) ELSE d]

\* an advance that leaves out the 10 frame entries
pack_next_dof_free_short(first_dof, ibody_num_dof) == first_dof + ibody_num_dof

pack_next_dof_free_plus6(first_dof, ibody_num_dof) == first_dof + ibody_num_dof + 6

\* first_dof += ibody_num_dof + 10 (free body)
pack_next_dof_free(first_dof, ibody_num_dof) == first_dof + ibody_num_dof + 10

pack_dquatdt_from_dqddt(t, ibody) == TakeLast(t.dqddt, 4)

\* dquatdt = MB_tstep[ibody].mb_dquatdt[ibody, :], read before the mapping runs
pack_dquatdt(t, ibody) == t.mb_dquatdt[ibody]

\* disp_and_accel2state: the for loop from body ibody on.  f holds the flat
\* q, dqdt and dqddt; the result holds the bodies and the flat vectors
RECURSIVE disp_and_accel2state_loop(_, _, _, _, _, _)
disp_and_accel2state_loop(mbb, mbt, f, ibody, first_dof, written) ==
    IF ibody >= Len0(mbb) THEN [MB_tstep |-> mbt, flat |-> f]
    ELSE LET ibody_num_dof == mbb[ibody].num_dof
         IN  IF mbb[ibody].FoR_movement = "prescribed"
             THEN LET t == cbeam3_solv_accel2state(mbb[ibody],
                               cbeam3_solv_disp2state(mbb[ibody], mbt[ibody]))
                      f1 == [q     |-> SetSlice(f.q, first_dof, DropLast(t.q, 10)),
                             dqdt  |-> SetSlice(f.dqdt, first_dof, DropLast(t.dqdt, 10)),
                             dqddt |-> SetSlice(f.dqddt, first_dof, DropLast(t.dqddt, 10))]
                  IN  disp_and_accel2state_loop(mbb, [mbt EXCEPT ![ibody] = t], f1,
                                                ibody + 1, first_dof + ibody_num_dof, written)
             ELSE IF mbb[ibody].FoR_movement = "free"
             THEN LET dquatdt == pack_dquatdt(mbt[ibody], ibody)
                      t == xbeam_solv_accel2state(mbb[ibody],
                               xbeam_solv_disp2state(mbb[ibody], mbt[ibody]), written)
                      f1 == [q     |-> SetSlice(f.q, first_dof, t.q),
                             dqdt  |-> SetSlice(f.dqdt, first_dof, t.dqdt),
                             dqddt |-> SetSlice(SetSlice(f.dqddt, first_dof, t.dqddt),
                                                first_dof + ibody_num_dof + 6, dquatdt)]
                  IN  disp_and_accel2state_loop(mbb, [mbt EXCEPT ![ibody] = t], f1, ibody + 1,
                                                pack_next_dof_free(first_dof, ibody_num_dof),
                                                written)
             ELSE disp_and_accel2state_loop(mbb, mbt, f, ibody + 1, first_dof, written)

disp_and_accel2state(mbb, mbt, f, written) ==
    disp_and_accel2state_loop(mbb, mbt, f, 0, 0, written)

unpack_dquatdt_skipped(t, ibody) == t

\* MB_tstep[ibody].mb_dquatdt[ibody, :] = MB_tstep[ibody].dqddt[-4:]
unpack_dquatdt(t, ibody) == [t EXCEPT !.mb_dquatdt[ibody] = TakeLast(t.dqddt, 4)]

\* state2disp_and_accel: the for loop from body ibody on; the result is MB_tstep
RECURSIVE state2disp_and_accel_loop(_, _, _, _, _)
state2disp_and_accel_loop(f, mbb, mbt, ibody, first_dof) ==
    IF ibody >= Len0(mbb) THEN mbt
    ELSE LET ibody_num_dof == mbb[ibody].num_dof
         IN  IF mbb[ibody].FoR_movement = "prescribed"
             THEN LET t0 == [mbt[ibody] EXCEPT
                               !.q     = SetSlice(@, 0, Slice(f.q, first_dof, first_dof + ibody_num_dof)),
                               !.dqdt  = SetSlice(@, 0, Slice(f.dqdt, first_dof, first_dof + ibody_num_dof)),
                               !.dqddt = SetSlice(@, 0, Slice(f.dqddt, first_dof, first_dof + ibody_num_dof))]
                      t  == cbeam3_solv_state2accel(mbb[ibody], cbeam3_solv_state2disp(mbb[ibody], t0))
                  IN  state2disp_and_accel_loop(f, mbb, [mbt EXCEPT ![ibody] = t],
                                                ibody + 1, first_dof + ibody_num_dof)
             ELSE IF mbb[ibody].FoR_movement = "free"
             THEN LET t0 == [mbt[ibody] EXCEPT
                               !.q     = Slice(f.q, first_dof, first_dof + ibody_num_dof + 10),
                               !.dqdt  = Slice(f.dqdt, first_dof, first_dof + ibody_num_dof + 10),
                               !.dqddt = Slice(f.dqddt, first_dof, first_dof + ibody_num_dof + 10)]
                      t1 == unpack_dquatdt(t0, ibody)
                      t  == xbeam_solv_state2accel(mbb[ibody], xbeam_solv_state2disp(mbb[ibody], t1))
                  IN  state2disp_and_accel_loop(f, mbb, [mbt EXCEPT ![ibody] = t],
                                                ibody + 1, first_dof + ibody_num_dof + 10)
             ELSE state2disp_and_accel_loop(f, mbb, mbt, ibody + 1, first_dof)

state2disp_and_accel(f, mbb, mbt) == state2disp_and_accel_loop(f, mbb, mbt, 0, 0)

(***************************************************************************)
(* numpy matrices.  A small matrix is a 0-based function of rows, each a   *)
(* 0-based function of columns.  LM_C and LM_K are kept by their non-zero  *)
(* entries: [n |-> order, e |-> function of <<row, column>>].              *)
(***************************************************************************)
\* x = v followed by statements that use x: v is computed once, whatever the
\* number of times the statements read x
Once(v, F(_)) == CHOOSE out \in {F(x) : x \in {y \in {v} : y = y}} : TRUE

Min2(a, b) == IF a < b THEN a ELSE b
Max2(a, b) == IF a > b THEN a ELSE b

\* the slice a:b of an axis of n entries: its first index and its length
PySlice(a, b, n) ==
    LET lo == IF a < 0 THEN Max2(a + n, 0) ELSE Min2(a, n)
        hi == IF b < 0 THEN Max2(b + n, 0) ELSE Min2(b, n)
    IN  [start |-> lo, len |-> Max2(hi - lo, 0)]

Rows(A) == Len0(A)
Cols(A) == IF Len0(A) = 0 THEN 0 ELSE Len0(A[0])
Eye(n) == [i \in 0..(n-1) |-> [j \in 0..(n-1) |-> IF i = j THEN 1 ELSE 0]]
Transpose(A) == [j \in 0..(Cols(A)-1) |-> [i \in 0..(Rows(A)-1) |-> A[i][j]]]
ScaleV(s, v) == [i \in DOMAIN v |-> s * v[i]]
ScaleM(s, A) == [i \in DOMAIN A |-> ScaleV(s, A[i])]
AddV(u, v) == [i \in DOMAIN u |-> u[i] + v[i]]
SubV(u, v) == [i \in DOMAIN u |-> u[i] - v[i]]
\* np.dot of a matrix and a vector, of two matrices, of a vector and a matrix
DotMV(A, v) == [i \in DOMAIN A |-> SumSeq([k \in 1..Len0(v) |-> A[i][k-1] * v[k-1]])]
Dot(A, B) == Transpose([j \in 0..(Cols(B)-1) |-> DotMV(A, [k \in DOMAIN B |-> B[k][j]])])
DotVM(v, A) == DotMV(Transpose(A), v)
\* a vector as a matrix of one row
AsRow(v) == [i \in 0..0 |-> v]

\* np.zeros((nr, nc)) for a Jacobian Bnh or B; err names the exception that
\* an assignment to it raised
ZerosB(nr, nc) == [a |-> [i \in 0..(nr-1) |-> Zeros(nc)], err |-> ""]

\* B[r0:r1, c0:c1] = A
SetBlock(B, r0, r1, c0, c1, A) ==
    Once(<<B, A>>, LAMBDA x :
      Once(<<PySlice(r0, r1, Rows(x[1].a)), PySlice(c0, c1, Cols(x[1].a))>>, LAMBDA sl :
        IF x[1].err # "" THEN x[1]
        ELSE IF sl[1].len # Rows(x[2]) \/ sl[2].len # Cols(x[2])
        THEN [x[1] EXCEPT !.err = "ValueError"]
        ELSE [x[1] EXCEPT !.a =
                [i \in DOMAIN x[1].a |-> [j \in DOMAIN x[1].a[i] |->
                    IF /\ sl[1].start <= i /\ i < sl[1].start + sl[1].len
                       /\ sl[2].start <= j /\ j < sl[2].start + sl[2].len
                    THEN x[2][i - sl[1].start][j - sl[2].start]
                    ELSE x[1].a[i][j]]]]))

\* the matrices of an assembly: np.zeros of order n for LM_C and LM_K, np.zeros
\* of n entries for LM_Q; err names the exception raised by a statement, after
\* which no statement is executed
ZerosLM(n) ==
    [LM_C |-> [n |-> n, e |-> [p \in {} |-> 0]],
     LM_K |-> [n |-> n, e |-> [p \in {} |-> 0]],
     LM_Q |-> Zeros(n),
     err  |-> ""]

\* entry (i, j) of LM_C or LM_K
At(M, i, j) == IF <<i, j>> \in DOMAIN M.e THEN M.e[<<i, j>>] ELSE 0

\* S.f[r0:r1, c0:c1] += A, f one of "LM_C", "LM_K"
AddMat(S, f, r0, r1, c0, c1, A) ==
    Once(<<S, A>>, LAMBDA x :
      Once(<<PySlice(r0, r1, x[1][f].n), PySlice(c0, c1, x[1][f].n)>>, LAMBDA sl :
        IF x[1].err # "" THEN x[1]
        ELSE IF sl[1].len # Rows(x[2]) \/ sl[2].len # Cols(x[2])
        THEN [x[1] EXCEPT !.err = "ValueError"]
        ELSE [x[1] EXCEPT ![f].e =
                [p \in (DOMAIN @)
                       \cup {q \in (sl[1].start .. (sl[1].start + sl[1].len - 1))
                                   \X (sl[2].start .. (sl[2].start + sl[2].len - 1)) :
                                x[2][q[1] - sl[1].start][q[2] - sl[2].start] # 0} |->
                    (IF p \in DOMAIN @ THEN @[p] ELSE 0)
                    + (IF /\ sl[1].start <= p[1] /\ p[1] < sl[1].start + sl[1].len
                          /\ sl[2].start <= p[2] /\ p[2] < sl[2].start + sl[2].len
                       THEN x[2][p[1] - sl[1].start][p[2] - sl[2].start]
                       ELSE 0)]]))

\* S.LM_Q[a:b] += v
AddVec(S, a, b, v) ==
    Once(<<S, v>>, LAMBDA x :
      Once(PySlice(a, b, Len0(x[1].LM_Q)), LAMBDA sl :
        IF x[1].err # "" THEN x[1]
        ELSE IF sl.len # Len0(x[2])
        THEN [x[1] EXCEPT !.err = "ValueError"]
        ELSE [x[1] EXCEPT !.LM_Q =
                [i \in DOMAIN @ |->
                    IF sl.start <= i /\ i < sl.start + sl.len
                    THEN @[i] + x[2][i - sl.start] ELSE @[i]]]))

\* the exception raised while a Jacobian was filled is the exception of the call
Raise(S, B) ==
    Once(<<S, B.err>>, LAMBDA x :
      IF x[1].err = "" /\ x[2] # "" THEN [x[1] EXCEPT !.err = x[2]] ELSE x[1])

(***************************************************************************)
(* sharpy.utils.algebra: the quaternion and rotation-vector primitives the *)
(* constraints call.  The bodies of the model carry unit quaternions with  *)
(* integer components and zero rotation vectors, on which the primitives   *)
(* take the integer values given here.                                     *)
(***************************************************************************)
skew(v) ==
    [i \in 0..2 |-> [j \in 0..2 |->
        CASE <<i, j>> = <<0, 1>> -> -v[2]
          [] <<i, j>> = <<0, 2>> -> v[1]
          [] <<i, j>> = <<1, 0>> -> v[2]
          [] <<i, j>> = <<1, 2>> -> -v[0]
          [] <<i, j>> = <<2, 0>> -> -v[1]
          [] <<i, j>> = <<2, 1>> -> v[0]
          [] OTHER -> 0]]

\* the rotation matrix of a quaternion of norm 1
quat2rotation(q) ==
    [i \in 0..2 |-> [j \in 0..2 |->
        CASE <<i, j>> = <<0, 0>> -> q[0]*q[0] + q[1]*q[1] - q[2]*q[2] - q[3]*q[3]
          [] <<i, j>> = <<1, 1>> -> q[0]*q[0] - q[1]*q[1] + q[2]*q[2] - q[3]*q[3]
          [] <<i, j>> = <<2, 2>> -> q[0]*q[0] - q[1]*q[1] - q[2]*q[2] + q[3]*q[3]
          [] <<i, j>> = <<1, 0>> -> 2 * (q[1]*q[2] + q[0]*q[3])
          [] <<i, j>> = <<0, 1>> -> 2 * (q[1]*q[2] - q[0]*q[3])
          [] <<i, j>> = <<2, 0>> -> 2 * (q[1]*q[3] - q[0]*q[2])
          [] <<i, j>> = <<0, 2>> -> 2 * (q[1]*q[3] + q[0]*q[2])
          [] <<i, j>> = <<2, 1>> -> 2 * (q[2]*q[3] + q[0]*q[1])
          [] <<i, j>> = <<1, 2>> -> 2 * (q[2]*q[3] - q[0]*q[1])]]

\* quat_bound: the quaternion with a non-negative first component
quat_bound(q) == IF q[0] < 0 THEN ScaleV(-1, q) ELSE q

\* derivative of quat2rotation(q) . v, and of its transpose, by the components
\* of q: a 3 x 4 matrix (quat2rotation is quadratic in q)
der_Cquat_by_v(q, v) ==
    LET e(k) == [i \in 0..3 |-> IF i = k THEN 1 ELSE 0]
        f(x) == DotMV(quat2rotation(x), v)
    IN  [i \in 0..2 |-> [k \in 0..3 |->
            (f(AddV(q, e(k)))[i] - f(SubV(q, e(k)))[i]) \div 2]]

der_CquatT_by_v(q, v) ==
    LET e(k) == [i \in 0..3 |-> IF i = k THEN 1 ELSE 0]
        f(x) == DotMV(Transpose(quat2rotation(x)), v)
    IN  [i \in 0..2 |-> [k \in 0..3 |->
            (f(AddV(q, e(k)))[i] - f(SubV(q, e(k)))[i]) \div 2]]

\* rotation matrix and tangent operator of a rotation vector, to first order
\* in psi (exact for psi = 0)
crv2rotation(psi) == [i \in 0..2 |-> AddV(Eye(3)[i], skew(psi)[i])]
crv2tan(psi) == [i \in 0..2 |-> [j \in 0..2 |-> Eye(3)[i][j] - (skew(psi)[i][j] \div 2)]]

\* derivatives of crv2rotation(psi) . v, of its transpose and of the transpose
\* of crv2tan(psi) . v by the components of psi, at psi = 0
der_Ccrv_by_v(psi, v) == ScaleM(-1, skew(v))
der_CcrvT_by_v(psi, v) == skew(v)
der_TanT_by_xv(psi, v) == [i \in 0..2 |-> [j \in 0..2 |-> (-skew(v)[i][j]) \div 2]]

(***************************************************************************)
(* Equations: the kernels shared by the constraint classes.  S holds LM_C, *)
(* LM_K and LM_Q; mbb and mbt are MB_beam and MB_tstep.                     *)
(***************************************************************************)
\* LM[sys_size+ieq:sys_size+ieq+num_LM_eq_specific, :sys_size] += scalingFactor*Bnh
\* LM[:sys_size, sys_size+ieq:sys_size+ieq+num_LM_eq_specific] += scalingFactor*np.transpose(Bnh)
\* with LM the matrix f: LM_C in the dynamic and LM_K in the static contributions
add_coupling(S, f, sys_size, ieq, num_LM_eq_specific, scalingFactor, Bnh) ==
    Once(Bnh, LAMBDA B :
      LET S0 == Raise(S, B)
          S1 == AddMat(S0, f, sys_size + ieq, sys_size + ieq + num_LM_eq_specific,
                       0, sys_size, ScaleM(scalingFactor, B.a))
      IN  AddMat(S1, f, 0, sys_size, sys_size + ieq, sys_size + ieq + num_LM_eq_specific,
                 ScaleM(scalingFactor, Transpose(B.a))))

\* LM_Q[:sys_size] += scalingFactor*np.dot(np.transpose(Bnh), Lambda_dot[ieq:ieq+n])
add_reaction(S, sys_size, ieq, num_LM_eq_specific, scalingFactor, Bnh, Lambda_dot) ==
    Once(Bnh, LAMBDA B :
      AddVec(Raise(S, B), 0, sys_size,
             ScaleV(scalingFactor,
                    DotMV(Transpose(B.a),
                          Slice(Lambda_dot, ieq, ieq + num_LM_eq_specific)))))

equal_lin_vel_node_FoR(mbt, mbb, FoR_body, node_body, node_number, node_FoR_dof, node_dof, FoR_dof, sys_size, Lambda_dot, scalingFactor, penaltyFactor, ieq, S) ==
    LET free == mbb[node_body].FoR_movement = "free"
        CF   == quat2rotation(mbt[FoR_body].quat)
        CN   == quat2rotation(mbt[node_body].quat)
        pos  == mbt[node_body].pos[node_number]
        lam  == Slice(Lambda_dot, ieq, ieq + 3)
        dCN  == der_CquatT_by_v(mbt[node_body].quat, ScaleV(scalingFactor, lam))
        B1   == SetBlock(ZerosB(3, sys_size), 0, 3, FoR_dof, FoR_dof + 3, CF)
        B2   == SetBlock(B1, 0, 3, node_dof, node_dof + 3, ScaleM(-1, CN))
        B3   == IF free
                THEN SetBlock(B2, 0, 3, node_FoR_dof, node_FoR_dof + 3, ScaleM(-1, CN))
                ELSE B2
        Bnh  == IF free
                THEN SetBlock(B3, 0, 3, node_FoR_dof + 3, node_FoR_dof + 6,
                              Dot(CN, skew(pos)))
                ELSE B3
        S1 == add_coupling(S, "LM_C", sys_size, ieq, 3, scalingFactor, Bnh)
        S2 == add_reaction(S1, sys_size, ieq, 3, scalingFactor, Bnh, Lambda_dot)
        S3 == AddVec(S2, sys_size + ieq, sys_size + ieq + 3,
                SubV(DotMV(CF, Slice(mbt[FoR_body].for_vel, 0, 3)),
                     DotMV(CN, AddV(AddV(mbt[node_body].pos_dot[node_number],
                                         Slice(mbt[node_body].for_vel, 0, 3)),
                                    ScaleV(-1, DotMV(skew(pos),
                                               Slice(mbt[node_body].for_vel, 3, 6)))))))
        S4 == AddMat(S3, "LM_C", FoR_dof, FoR_dof + 3, FoR_dof + 6, FoR_dof + 10,
                der_CquatT_by_v(mbt[FoR_body].quat, ScaleV(scalingFactor, lam)))
        S5 == AddMat(S4, "LM_C", node_dof, node_dof + 3,
                node_FoR_dof + 6, node_FoR_dof + 10, ScaleM(-1, dCN))
        S6 == AddMat(S5, "LM_C", node_FoR_dof, node_FoR_dof + 3,
                node_FoR_dof + 6, node_FoR_dof + 10, ScaleM(-1, dCN))
        S7 == AddMat(S6, "LM_C", node_FoR_dof + 3, node_FoR_dof + 6,
                node_FoR_dof + 6, node_FoR_dof + 10, ScaleM(-1, Dot(skew(pos), dCN)))
        S8 == AddMat(S7, "LM_K", node_FoR_dof + 3, node_FoR_dof + 6,
                node_dof, node_dof + 3, skew(DotMV(Transpose(CN), lam)))
    IN  [S |-> IF free THEN S8 ELSE S4, ieq |-> ieq + 3]

independent_rows_first_two(M) == [i \in 0..1 |-> i]

\* the two rows of a 3-row matrix other than the row of strictly smallest
\* norm; no rows when no row is strictly the smallest
independent_rows(M) ==
    LET n(k) == SumSeq([c \in 1..Cols(M) |-> M[k][c-1] * M[k][c-1]])
    IN  IF n(0) < n(1) /\ n(0) < n(2) THEN [i \in 0..1 |-> <<1, 2>>[i+1]]
        ELSE IF n(1) < n(0) /\ n(1) < n(2) THEN [i \in 0..1 |-> <<0, 2>>[i+1]]
        ELSE IF n(2) < n(0) /\ n(2) < n(1) THEN [i \in 0..1 |-> <<0, 1>>[i+1]]
        ELSE Zeros(0)

\* the pair recomputed by every call, whatever the list holds
determine_indep_always(indep, aux_Bnh) == independent_rows(aux_Bnh)

\* "if not indep:" of def_rot_axis_FoR_wrt_node: the rows are looked for only while
\* the constraint's list is empty; a list that holds a pair is left as it is
determine_indep(indep, aux_Bnh) ==
    IF Len0(indep) = 0 THEN independent_rows(aux_Bnh) ELSE indep

def_rot_axis_FoR_wrt_node(mbt, mbb, FoR_body, node_body, node_number, node_FoR_dof, node_dof, FoR_dof, sys_size, Lambda_dot, rot_axisB, scalingFactor, penaltyFactor, ieq, S, indep) ==
    LET me   == mbb[node_body].node_master_elem[node_number]
        psi  == mbt[node_body].psi[me[1]][me[2]]
        CF   == quat2rotation(mbt[FoR_body].quat)
        CN   == quat2rotation(mbt[node_body].quat)
        aux_Bnh == Dot(Dot(Dot(skew(rot_axisB), Transpose(crv2rotation(psi))),
                           Transpose(CN)), CF)
        indep1 == determine_indep(indep, aux_Bnh)
        ok   == Len0(indep1) = 2
        lam  == Slice(Lambda_dot, ieq, ieq + 2)
        new_Lambda_dot == [i \in 0..2 |-> IF i = indep1[0] THEN Lambda_dot[ieq]
                                          ELSE IF i = indep1[1] THEN Lambda_dot[ieq + 1]
                                          ELSE 0]
        w    == DotMV(Transpose(skew(rot_axisB)), new_Lambda_dot)
        Bnh  == SetBlock(ZerosB(2, sys_size), 0, 2, FoR_dof + 3, FoR_dof + 6,
                         GetRows(aux_Bnh, indep1))
        S1 == add_reaction(S, sys_size, ieq, 2, scalingFactor, Bnh, Lambda_dot)
        S2 == AddVec(S1, sys_size + ieq, sys_size + ieq + 2,
                GetRows(DotMV(aux_Bnh, Slice(mbt[FoR_body].for_vel, 3, 6)), indep1))
        S3 == add_coupling(S2, "LM_C", sys_size, ieq, 2, scalingFactor, Bnh)
        S4 == IF mbb[node_body].FoR_movement = "free"
              THEN AddMat(S3, "LM_C", FoR_dof + 3, FoR_dof + 6,
                          node_FoR_dof + 6, node_FoR_dof + 10,
                          Dot(Transpose(CF),
                              der_Cquat_by_v(mbt[node_body].quat,
                                             DotMV(crv2rotation(psi), w))))
              ELSE S3
        S5 == AddMat(S4, "LM_C", FoR_dof + 3, FoR_dof + 6, FoR_dof + 6, FoR_dof + 10,
                der_CquatT_by_v(mbt[FoR_body].quat,
                                DotMV(Dot(CN, crv2rotation(psi)), w)))
        S6 == AddMat(S5, "LM_K", FoR_dof + 3, FoR_dof + 6, node_dof + 3, node_dof + 6,
                Dot(Dot(Transpose(CF), CN), der_CcrvT_by_v(psi, w)))
    IN  IF S.err # "" THEN [S |-> S, ieq |-> ieq, indep |-> indep]
        ELSE IF ~ok
        THEN [S |-> [S EXCEPT !.err = "IndexError"], ieq |-> ieq, indep |-> indep1]
        ELSE [S |-> S6, ieq |-> ieq + 2, indep |-> indep1]

def_rot_vel_FoR_wrt_node(mbt, mbb, FoR_body, node_body, node_number, node_FoR_dof, node_dof, FoR_dof, sys_size, Lambda_dot, rot_axisB, rot_vel, scalingFactor, penaltyFactor, ieq, S) ==
    LET me   == mbb[node_body].node_master_elem[node_number]
        psi  == mbt[node_body].psi[me[1]][me[2]]
        CF   == quat2rotation(mbt[FoR_body].quat)
        CN   == quat2rotation(mbt[node_body].quat)
        row  == DotVM(rot_axisB, Dot(Dot(Transpose(crv2rotation(psi)), Transpose(CN)), CF))
        w    == ScaleV(Lambda_dot[ieq], rot_axisB)
        Bnh  == SetBlock(ZerosB(1, sys_size), 0, 1, FoR_dof + 3, FoR_dof + 6, AsRow(row))
        S1 == add_reaction(S, sys_size, ieq, 1, scalingFactor, Bnh, Lambda_dot)
        S2 == AddVec(S1, sys_size + ieq, sys_size + ieq + 1,
                [i \in 0..0 |->
                    SumSeq([k \in 1..3 |-> row[k-1] * mbt[FoR_body].for_vel[3 + k - 1]])
                    - rot_vel])
        S3 == add_coupling(S2, "LM_C", sys_size, ieq, 1, scalingFactor, Bnh)
        S4 == IF mbb[node_body].FoR_movement = "free"
              THEN AddMat(S3, "LM_C", FoR_dof + 3, FoR_dof + 6,
                          node_FoR_dof + 6, node_FoR_dof + 10,
                          Dot(Transpose(CF),
                              der_Cquat_by_v(mbt[node_body].quat,
                                             DotMV(crv2rotation(psi), w))))
              ELSE S3
        S5 == AddMat(S4, "LM_C", FoR_dof + 3, FoR_dof + 6, FoR_dof + 6, FoR_dof + 10,
                der_CquatT_by_v(mbt[FoR_body].quat,
                                DotMV(Dot(CN, Transpose(crv2rotation(psi))), w)))
        S6 == AddMat(S5, "LM_K", FoR_dof + 3, FoR_dof + 6, node_dof + 3, node_dof + 6,
                Dot(Dot(Transpose(CF), CN), der_Ccrv_by_v(psi, w)))
    IN  [S |-> S6, ieq |-> ieq + 1]

(***************************************************************************)
(* Lagrange constraints: dynamicmat and staticmat of the classes.  lc is   *)
(* the constraint object (lc.ieq is self._ieq, lc.attr its parameters).    *)
(***************************************************************************)
Fail(S, exc) == Once(S, LAMBDA x : IF x.err = "" THEN [x EXCEPT !.err = exc] ELSE x)

spherical_FoR_dynamicmat(lc, S, mbb, mbt, sys_size, Lambda_dot, scalingFactor) ==
    LET FoR_dof == define_FoR_dof(mbb, lc.attr["body_FoR"])
        ieq == lc.ieq
        Bnh == SetBlock(ZerosB(3, sys_size), 0, 3, FoR_dof, FoR_dof + 3, Eye(3))
        S1  == add_coupling(S, "LM_C", sys_size, ieq, 3, scalingFactor, Bnh)
        S2  == add_reaction(S1, sys_size, ieq, 3, scalingFactor, Bnh, Lambda_dot)
    IN  AddVec(S2, sys_size + ieq, sys_size + ieq + 3,
               Slice(mbt[lc.attr["body_FoR"]].for_vel, 0, 3))

\* hinge_FoR (wrtG FALSE) and hinge_FoR_wrtG (wrtG TRUE), which differ in the
\* rotation of the linear velocity rows and in the quaternion term of LM_C
hinge_FoR_dynamicmat(lc, S, mbb, mbt, sys_size, Lambda_dot, scalingFactor, wrtG) ==
    LET body == lc.attr["body_FoR"]
        FoR_dof == define_FoR_dof(mbb, body)
        ieq == lc.ieq
        C   == IF wrtG THEN quat2rotation(mbt[body].quat) ELSE Eye(3)
        B1  == SetBlock(ZerosB(5, sys_size), 0, 3, FoR_dof, FoR_dof + 3, C)
        skew_rot_axis == skew(lc.attr["rot_axis"])
        rows == independent_rows(skew_rot_axis)
        Bnh == SetBlock(B1, 3, 5, FoR_dof + 3, FoR_dof + 6, GetRows(skew_rot_axis, rows))
        S1  == add_coupling(S, "LM_C", sys_size, ieq, 5, scalingFactor, Bnh)
        S2  == IF wrtG
               THEN AddMat(S1, "LM_C", FoR_dof, FoR_dof + 3, FoR_dof + 6, FoR_dof + 10,
                           der_CquatT_by_v(mbt[body].quat, Slice(Lambda_dot, ieq, ieq + 3)))
               ELSE S1
        S3  == add_reaction(S2, sys_size, ieq, 5, scalingFactor, Bnh, Lambda_dot)
        S4  == AddVec(S3, sys_size + ieq, sys_size + ieq + 3,
                      DotMV(C, Slice(mbt[body].for_vel, 0, 3)))
    IN  IF B1.err # "" THEN Raise(S, B1)
        ELSE IF Len0(rows) = 0 THEN Fail(S, "UnboundLocalError")
        ELSE AddVec(S4, sys_size + ieq + 3, sys_size + ieq + 5,
                    DotMV(GetRows(skew_rot_axis, rows), Slice(mbt[body].for_vel, 3, 6)))

fully_constrained_node_FoR_dynamicmat(lc, S, mbb, mbt, sys_size, Lambda_dot, scalingFactor) ==
    LET node_dof == define_node_dof(mbb, lc.attr["node_body"], lc.attr["node_number"])
        FoR_dof  == define_FoR_dof(mbb, lc.attr["FoR_body"])
        ieq  == lc.ieq
        quat == quat_bound(mbt[lc.attr["FoR_body"]].quat)
        C    == quat2rotation(quat)
        me   == mbb[0].node_master_elem[lc.attr["node_number"]]
        psi  == mbt[0].psi[me[1]][me[2]]
        B1   == SetBlock(ZerosB(6, sys_size), 0, 3, node_dof, node_dof + 3,
                         ScaleM(-1, Eye(3)))
        B2   == SetBlock(B1, 0, 3, FoR_dof, FoR_dof + 3, C)
        B3   == SetBlock(B2, 3, 6, FoR_dof + 3, FoR_dof + 6, ScaleM(-1, C))
        Bnh  == SetBlock(B3, 3, 6, node_dof + 3, node_dof + 6, crv2tan(psi))
        S1 == add_coupling(S, "LM_C", sys_size, ieq, 6, scalingFactor, Bnh)
        S2 == add_reaction(S1, sys_size, ieq, 6, scalingFactor, Bnh, Lambda_dot)
        S3 == AddVec(S2, sys_size + ieq, sys_size + ieq + 3,
                AddV(ScaleV(-1, mbt[0].pos_dot[Len0(mbt[0].pos_dot) - 1]),
                     DotMV(C, Slice(mbt[1].for_vel, 0, 3))))
        S4 == AddVec(S3, sys_size + ieq + 3, sys_size + ieq + 6,
                SubV(DotMV(crv2tan(psi), mbt[0].psi_dot[me[1]][me[2]]),
                     DotMV(C, Slice(mbt[lc.attr["FoR_body"]].for_vel, 3, 6))))
        S5 == AddMat(S4, "LM_C", FoR_dof, FoR_dof + 3, FoR_dof + 6, FoR_dof + 10,
                der_CquatT_by_v(quat, ScaleV(scalingFactor, Slice(Lambda_dot, ieq, ieq + 3))))
        S6 == AddMat(S5, "LM_C", FoR_dof + 3, FoR_dof + 6, FoR_dof + 6, FoR_dof + 10,
                ScaleM(-1, der_CquatT_by_v(quat,
                    ScaleV(scalingFactor, Slice(Lambda_dot, ieq + 3, ieq + 6)))))
    IN  IF 1 \notin DOMAIN mbt \/ lc.attr["node_number"] \notin DOMAIN mbb[0].node_master_elem
        THEN Fail(S, "IndexError")
        ELSE AddMat(S6, "LM_K", node_dof + 3, node_dof + 6, node_dof + 3, node_dof + 6,
                der_TanT_by_xv(psi, ScaleV(scalingFactor, Slice(Lambda_dot, ieq + 3, ieq + 6))))

\* a contribution that leaves the rows of its equations in LM_Q as they are
constant_vel_FoR_dynamicmat_no_residual(lc, S, mbb, mbt, sys_size, Lambda_dot, scalingFactor, six) ==
    LET FoR_dof == define_FoR_dof(mbb, lc.attr["FoR_body"])
        Bnh == IF six
               THEN SetBlock(ZerosB(lc.n_eq, sys_size), 0, lc.n_eq, FoR_dof, FoR_dof + 6, Eye(6))
               ELSE SetBlock(ZerosB(lc.n_eq, sys_size), 0, 3, FoR_dof + 3, FoR_dof + 6, Eye(3))
        S1  == add_coupling(S, "LM_C", sys_size, lc.ieq, lc.n_eq, scalingFactor, Bnh)
    IN  add_reaction(S1, sys_size, lc.ieq, lc.n_eq, scalingFactor, Bnh, Lambda_dot)

\* constant_rot_vel_FoR (6 FALSE: the angular velocity rows, target rot_vel) and
\* constant_vel_FoR (6 TRUE: the six velocity rows, target vel)
constant_vel_FoR_dynamicmat(lc, S, mbb, mbt, sys_size, Lambda_dot, scalingFactor, six) ==
    LET FoR_dof == define_FoR_dof(mbb, lc.attr["FoR_body"])
        ieq == lc.ieq
        n   == lc.n_eq
        for_vel == mbt[lc.attr["FoR_body"]].for_vel
        Bnh == IF six
               THEN SetBlock(ZerosB(n, sys_size), 0, n, FoR_dof, FoR_dof + 6, Eye(6))
               ELSE SetBlock(ZerosB(n, sys_size), 0, 3, FoR_dof + 3, FoR_dof + 6, Eye(3))
        S1  == add_coupling(S, "LM_C", sys_size, ieq, n, scalingFactor, Bnh)
        S2  == add_reaction(S1, sys_size, ieq, n, scalingFactor, Bnh, Lambda_dot)
    IN  AddVec(S2, sys_size + ieq, sys_size + ieq + n,
               IF six THEN SubV(for_vel, lc.attr["vel"])
               ELSE SubV(Slice(for_vel, 3, 6), lc.attr["rot_vel"]))

lin_vel_node_staticmat_damping(lc, S, mbb, mbt, sys_size, Lambda, scalingFactor, wrtG) ==
    add_coupling(S, "LM_C", sys_size, lc.ieq, 3, scalingFactor,
                 SetBlock(ZerosB(3, sys_size), 0, 3,
                          define_node_dof(mbb, lc.attr["body_number"], lc.attr["node_number"]),
                          define_node_dof(mbb, lc.attr["body_number"], lc.attr["node_number"]) + 3,
                          Eye(3)))

\* lin_vel_node_wrtA (wrtG FALSE) and lin_vel_node_wrtG (wrtG TRUE)
lin_vel_node_staticmat(lc, S, mbb, mbt, sys_size, Lambda, scalingFactor, wrtG) ==
    LET body == lc.attr["body_number"]
        node == lc.attr["node_number"]
        node_dof == define_node_dof(mbb, body, node)
        ieq == lc.ieq
        ini == mbb[body].ini_info
        B   == SetBlock(ZerosB(3, sys_size), 0, 3, node_dof, node_dof + 3,
                        IF wrtG THEN quat2rotation(mbt[body].quat) ELSE Eye(3))
        S1  == add_coupling(S, "LM_K", sys_size, ieq, 3, scalingFactor, B)
        S2  == add_reaction(S1, sys_size, ieq, 3, scalingFactor, B, Lambda)
    IN  IF ~wrtG
        THEN AddVec(S2, sys_size + ieq, sys_size + ieq + 3,
                    SubV(mbt[body].pos[node], ini.pos[node]))
        ELSE IF Len0(mbt[body].for_pos) # 3 \/ Len0(ini.for_pos) # 3
        THEN Fail(S2, "ValueError")
        ELSE AddVec(AddVec(S2, sys_size + ieq, sys_size + ieq + 3,
                           AddV(DotMV(quat2rotation(mbt[body].quat), mbt[body].pos[node]),
                                mbt[body].for_pos)),
                    sys_size + ieq, sys_size + ieq + 3,
                    ScaleV(-1, AddV(DotMV(quat2rotation(ini.quat), ini.pos[node]),
                                    ini.for_pos)))

\* self.vel[ts-1, :] of a series of velocities, self.vel of a constant one
current_vel(vel, ts) ==
    IF vel.ndim > 1
    THEN vel.a[IF ts - 1 < 0 THEN ts - 1 + Len0(vel.a) ELSE ts - 1]
    ELSE vel.a

lin_vel_node_dynamicmat(lc, S, mbb, mbt, ts, sys_size, Lambda_dot, scalingFactor, wrtG) ==
    LET body == lc.attr["body_number"]
        node == lc.attr["node_number"]
        FoR_dof  == define_FoR_dof(mbb, body)
        node_dof == define_node_dof(mbb, body, node)
        ieq  == lc.ieq
        free == wrtG /\ mbb[body].FoR_movement = "free"
        C    == quat2rotation(mbt[body].quat)
        pos  == mbt[body].pos[node]
        lam  == Slice(Lambda_dot, ieq, ieq + 3)
        dC   == der_CquatT_by_v(mbt[body].quat, lam)
        B1   == IF free
                THEN SetBlock(ZerosB(3, sys_size), 0, 3, FoR_dof, FoR_dof + 3, C)
                ELSE ZerosB(3, sys_size)
        B2   == IF free
                THEN SetBlock(B1, 0, 3, FoR_dof + 3, FoR_dof + 6,
                              ScaleM(-1, Dot(C, skew(pos))))
                ELSE B1
        Bnh  == SetBlock(B2, 0, 3, node_dof, node_dof + 3, IF wrtG THEN C ELSE Eye(3))
        S1 == add_coupling(S, "LM_C", sys_size, ieq, 3, scalingFactor, Bnh)
        S2 == AddMat(S1, "LM_C", FoR_dof, FoR_dof + 3, FoR_dof + 6, FoR_dof + 10, dC)
        S3 == AddMat(S2, "LM_C", node_dof, node_dof + 3, FoR_dof + 6, FoR_dof + 10, dC)
        S4 == AddMat(S3, "LM_C", FoR_dof + 3, FoR_dof + 6, FoR_dof + 6, FoR_dof + 10,
                     Dot(skew(pos), dC))
        S5 == AddMat(S4, "LM_K", FoR_dof + 3, FoR_dof + 6, node_dof, node_dof + 3,
                     ScaleM(-1, skew(DotMV(Transpose(C), lam))))
        S6 == add_reaction(IF free THEN S5 ELSE S1, sys_size, ieq, 3, scalingFactor,
                           Bnh, Lambda_dot)
    IN  AddVec(S6, sys_size + ieq, sys_size + ieq + 3,
            IF wrtG
            THEN SubV(DotMV(C, AddV(AddV(Slice(mbt[body].for_vel, 0, 3),
                                         DotMV(skew(Slice(mbt[body].for_vel, 3, 6)), pos)),
                                    mbt[body].pos_dot[node])),
                      current_vel(lc.attr["vel"], ts))
            ELSE SubV(mbt[body].pos_dot[node], current_vel(lc.attr["vel"], ts)))

\* lc.staticmat(...): the matrices and the constraint object after the call,
\* and the value of the method's local ieq when it returns
staticmat(lc, S, mbb, mbt, ts, num_LM_eq, sys_size, dt, Lambda, Lambda_dot, scalingFactor, penaltyFactor) ==
    [lc |-> lc,
     S  |-> CASE lc.lc_id = "lin_vel_node_wrtA" ->
                    lin_vel_node_staticmat(lc, S, mbb, mbt, sys_size, Lambda,
                                           scalingFactor, FALSE)
              [] lc.lc_id = "lin_vel_node_wrtG" ->
                    lin_vel_node_staticmat(lc, S, mbb, mbt, sys_size, Lambda,
                                           scalingFactor, TRUE)
              [] OTHER -> S,
     ieq |-> IF lc.lc_id \in {"lin_vel_node_wrtA", "lin_vel_node_wrtG"}
             THEN lc.ieq + 3 ELSE lc.ieq]

\* lc.dynamicmat(...): the matrices and the constraint object after the call,
\* and the value of the method's local ieq when it returns
dynamicmat(lc, S, mbb, mbt, ts, num_LM_eq, sys_size, dt, Lambda, Lambda_dot, scalingFactor, penaltyFactor) ==
    LET id == lc.lc_id
        node_dof     == define_node_dof(mbb, lc.attr["node_body"], lc.attr["node_number"])
        node_FoR_dof == define_FoR_dof(mbb, lc.attr["node_body"])
        FoR_dof      == define_FoR_dof(mbb, lc.attr["FoR_body"])
    IN  CASE id \in {"hinge_node_FoR", "hinge_node_FoR_constant_vel", "spherical_node_FoR"} ->
              Once(equal_lin_vel_node_FoR(mbt, mbb, lc.attr["FoR_body"],
                       lc.attr["node_body"], lc.attr["node_number"], node_FoR_dof,
                       node_dof, FoR_dof, sys_size, Lambda_dot, scalingFactor,
                       penaltyFactor, lc.ieq, S),
                   LAMBDA k1 :
                IF id = "spherical_node_FoR"
                THEN [lc |-> lc, S |-> k1.S, ieq |-> k1.ieq]
                ELSE
              Once(def_rot_axis_FoR_wrt_node(mbt, mbb, lc.attr["FoR_body"],
                       lc.attr["node_body"], lc.attr["node_number"], node_FoR_dof,
                       node_dof, FoR_dof, sys_size, Lambda_dot, lc.attr["rot_axisB"],
                       scalingFactor, penaltyFactor, k1.ieq, k1.S, lc.indep),
                   LAMBDA k2 :
                IF id = "hinge_node_FoR"
                THEN [lc |-> [lc EXCEPT !.indep = k2.indep], S |-> k2.S, ieq |-> k2.ieq]
                ELSE
              Once(def_rot_vel_FoR_wrt_node(mbt, mbb, lc.attr["FoR_body"],
                       lc.attr["node_body"], lc.attr["node_number"],
                       node_FoR_dof, node_dof, FoR_dof, sys_size, Lambda_dot,
                       lc.attr["rot_axisB"], lc.attr["rot_vel"], scalingFactor,
                       penaltyFactor, k2.ieq, k2.S),
                   LAMBDA k3 :
                [lc |-> [lc EXCEPT !.indep = k2.indep], S |-> k3.S, ieq |-> k3.ieq])))
          [] id = "free" -> [lc |-> lc, S |-> S, ieq |-> lc.ieq]
          [] id = "spherical_FoR" ->
                [lc |-> lc, S |-> spherical_FoR_dynamicmat(lc, S, mbb, mbt, sys_size,
                                      Lambda_dot, scalingFactor),
                 ieq |-> lc.ieq + 3]
          [] id \in {"hinge_FoR", "hinge_FoR_wrtG"} ->
                [lc |-> lc, S |-> hinge_FoR_dynamicmat(lc, S, mbb, mbt, sys_size,
                                      Lambda_dot, scalingFactor, id = "hinge_FoR_wrtG"),
                 ieq |-> lc.ieq + 5]
          [] id = "fully_constrained_node_FoR" ->
                [lc |-> lc, S |-> fully_constrained_node_FoR_dynamicmat(lc, S, mbb, mbt,
                                      sys_size, Lambda_dot, scalingFactor),
                 ieq |-> lc.ieq + 6]
          [] id \in {"constant_rot_vel_FoR", "constant_vel_FoR"} ->
                [lc |-> lc, S |-> constant_vel_FoR_dynamicmat(lc, S, mbb, mbt, sys_size,
                                      Lambda_dot, scalingFactor, id = "constant_vel_FoR"),
                 ieq |-> lc.ieq + (IF id = "constant_vel_FoR" THEN 6 ELSE 3)]
          [] id \in {"lin_vel_node_wrtA", "lin_vel_node_wrtG"} ->
                [lc |-> lc, S |-> lin_vel_node_dynamicmat(lc, S, mbb, mbt, ts, sys_size,
                                      Lambda_dot, scalingFactor, id = "lin_vel_node_wrtG"),
                 ieq |-> lc.ieq + 3]

\* str.lower() on the mode strings
lower(str) ==
    CASE str \in {"static", "Static", "STATIC"}    -> "static"
      [] str \in {"dynamic", "Dynamic", "DYNAMIC"} -> "dynamic"
      [] OTHER -> str

\* the for loop of generate_lagrange_matrix from the i-th constraint on; the
\* constraints it has called are replaced in the list by their state after the call
\* (scalingFactor = 1.0 and penaltyFactor = 0.0 are set before the loop)
RECURSIVE generate_lagrange_matrix_loop(_, _, _, _, _, _, _, _, _, _, _, _)
generate_lagrange_matrix_loop(list, i, S, mbb, mbt, ts, num_LM_eq, sys_size, dt, Lambda, Lambda_dot, dynamic_or_static) ==
    Once(<<list, S>>, LAMBDA x :
      IF i > Len(x[1]) \/ x[2].err # "" THEN [S |-> x[2], lc_list |-> x[1]]
      ELSE Once(IF lower(dynamic_or_static) = "static"
                THEN staticmat(x[1][i], x[2], mbb, mbt, ts, num_LM_eq, sys_size, dt,
                               Lambda, Lambda_dot, 1, 0)
                ELSE IF lower(dynamic_or_static) = "dynamic"
                THEN dynamicmat(x[1][i], x[2], mbb, mbt, ts, num_LM_eq, sys_size, dt,
                                Lambda, Lambda_dot, 1, 0)
                ELSE [lc |-> x[1][i], S |-> x[2], ieq |-> x[1][i].ieq],
                LAMBDA r :
                 generate_lagrange_matrix_loop([x[1] EXCEPT ![i] = r.lc], i + 1, r.S,
                                               mbb, mbt, ts, num_LM_eq, sys_size, dt,
                                               Lambda, Lambda_dot, dynamic_or_static)))

generate_lagrange_matrix(list, mbb, mbt, ts, num_LM_eq, sys_size, dt, Lambda, Lambda_dot, dynamic_or_static) ==
    generate_lagrange_matrix_loop(list, 1, ZerosLM(sys_size + num_LM_eq), mbb, mbt, ts,
                                  num_LM_eq, sys_size, dt, Lambda, Lambda_dot,
                                  dynamic_or_static)

\* the origin put on the rotated node only, without the origin of the node's body
dynamicpost_no_origin(lc, mbb, mbt) ==
    IF lc.lc_id \in {"hinge_node_FoR", "hinge_node_FoR_constant_vel", "spherical_node_FoR"}
    THEN [mbt EXCEPT ![lc.attr["FoR_body"]].for_pos =
            SetSlice(@, 0, DotMV(quat2rotation(mbt[lc.attr["node_body"]].quat),
                                 mbt[lc.attr["node_body"]].pos[lc.attr["node_number"]]))]
    ELSE mbt

\* dynamicpost of one constraint: the node-frame joints put the origin of the frame of
\* FoR_body on the node, for_pos[0:3] = R(quat) * pos[node] + for_pos[0:3] of the node
\* body; the dynamicpost of every other kind returns without a write
dynamicpost(lc, mbb, mbt) ==
    IF lc.lc_id \in {"hinge_node_FoR", "hinge_node_FoR_constant_vel", "spherical_node_FoR"}
    THEN [mbt EXCEPT ![lc.attr["FoR_body"]].for_pos =
            SetSlice(@, 0,
                AddV(DotMV(quat2rotation(mbt[lc.attr["node_body"]].quat),
                           mbt[lc.attr["node_body"]].pos[lc.attr["node_number"]]),
                     Slice(mbt[lc.attr["node_body"]].for_pos, 0, 3)))]
    ELSE mbt

\* postprocess: one pass over the list in its order; every staticpost returns without
\* a write, and a mode that is neither static nor dynamic calls nothing
RECURSIVE postprocess(_, _, _, _)
postprocess(list, mbb, mbt, dynamic_or_static) ==
    IF list = <<>> THEN mbt
    ELSE postprocess(Tail(list), mbb,
                     IF lower(dynamic_or_static) = "static" THEN mbt
                     ELSE IF lower(dynamic_or_static) = "dynamic"
                     THEN dynamicpost(Head(list), mbb, mbt)
                     ELSE mbt,
                     dynamic_or_static)

(***************************************************************************)
(* The composite systems of the model.  Body i has sizes[i] nodes in one   *)
(* element, the first node clamped in the body's frame (vdof = -1), so     *)
(* num_dof = 6 * (sizes[i] - 1).  Entries of the fields are pairwise       *)
(* different numbers, so that a value written to a wrong place shows.      *)
(***************************************************************************)
\* largest number of bodies of a system
MaxBodies == 3
\* largest number of nodes of a body
MaxBodyNodes == 3

Val(tag, i, c) == 100 * tag + 10 * i + c + 1
Vec(tag, i, n) == [c \in 0..(n-1) |-> Val(tag, i, c)]

BodySizes(nb) == [0..(nb-1) -> 2..MaxBodyNodes]
BodyMovements(nb) == [0..(nb-1) -> {"prescribed", "free"}]

\* first global node of body i: bodies laid out in body order ("forward") or
\* in the opposite order ("reverse")
NodeOffset(sizes, i, layout) ==
    IF layout = "forward"
    THEN SumSeq([k \in 1..i |-> sizes[k-1]])
    ELSE SumSeq([k \in 1..(Len0(sizes) - 1 - i) |-> sizes[Len0(sizes) - k]])
ElemOf(sizes, i, layout) == IF layout = "forward" THEN i ELSE Len0(sizes) - 1 - i
NumNodes(sizes) == SumSeq([k \in 1..Len0(sizes) |-> sizes[k-1]])
BodyOfElem(sizes, e, layout) == CHOOSE i \in DOMAIN sizes : ElemOf(sizes, i, layout) = e

MakeTstep(sizes, layout) ==
    LET nb  == Len0(sizes)
        nn  == NumNodes(sizes)
        ndof == SumSeq([k \in 1..nb |-> 6 * (sizes[k-1] - 1)])
        nodes(tag, w) == [g \in 0..(nn-1) |-> Vec(tag, g, w)]
        elems(tag) == [e \in 0..(nb-1) |->
                          [j \in 0..(sizes[BodyOfElem(sizes, e, layout)] - 1) |->
                              Vec(tag, 3 * e + j, 3)]]
        rows(tag, w) == [b \in 0..(nb-1) |-> Vec(tag, b, w)]
    IN  [pos |-> nodes(1, 3), pos_dot |-> nodes(2, 3), pos_ddot |-> nodes(3, 3),
         psi |-> elems(4), psi_dot |-> elems(5), psi_ddot |-> elems(6),
         gravity_forces |-> nodes(7, 6),
         forces_constraints_nodes |-> nodes(8, 6),
         forces_constraints_FoR |-> rows(9, 10),
         q     |-> [i \in 0..(ndof + 9) |-> 1000 + i],
         dqdt  |-> [i \in 0..(ndof + 9) |-> 2000 + i],
         dqddt |-> [i \in 0..(ndof + 9) |-> 3000 + i],
         for_pos |-> Vec(10, 0, 6), for_vel |-> Vec(11, 0, 6),
         for_acc |-> Vec(12, 0, 6), quat |-> Vec(13, 0, 4),
         mb_FoR_pos |-> rows(10, 6), mb_FoR_vel |-> rows(11, 6),
         mb_FoR_acc |-> rows(12, 6), mb_quat |-> rows(13, 4),
         mb_dquatdt |-> rows(14, 4)]

MakeBeam(sizes, layout) ==
    LET nb == Len0(sizes)
        t0 == MakeTstep(sizes, layout)
    IN  [num_bodies   |-> nb,
         num_dof      |-> SumSeq([k \in 1..nb |-> 6 * (sizes[k-1] - 1)]),
         body_num_dof |-> [i \in 0..(nb-1) |-> 6 * (sizes[i] - 1)],
         body_vdof    |-> [i \in 0..(nb-1) |-> [n \in 0..(sizes[i]-1) |-> n - 1]],
         body_node_master_elem |->
             [i \in 0..(nb-1) |-> [n \in 0..(sizes[i]-1) |-> <<0, n>>]],
         body_nodes   |-> [i \in 0..(nb-1) |->
                              [n \in 0..(sizes[i]-1) |-> NodeOffset(sizes, i, layout) + n]],
         body_elems   |-> [i \in 0..(nb-1) |-> [k \in 0..0 |-> ElemOf(sizes, i, layout)]],
         ini_info     |-> [pos |-> t0.pos, pos_dot |-> t0.pos_dot, psi_dot |-> t0.psi_dot,
                           for_pos |-> t0.for_pos, quat |-> t0.quat],
         timestep_info |-> [pos_dot |-> t0.pos_dot, psi_dot |-> t0.psi_dot]]

EmptyDict == [num_constraints |-> 0, constraint |-> <<>>, body |-> <<>>]
MakeDict(movs) ==
    [EmptyDict EXCEPT !.body = [i \in DOMAIN movs |-> [FoR_movement |-> movs[i]]]]

NoCall == [op |-> "none", arg |-> <<>>, ret |-> None, pre |-> None]

(***************************************************************************)
(* SpecDof: the bodies of a split system and the DOF addressing functions  *)
(***************************************************************************)
InitDof ==
    \E nb \in 1..MaxBodies :
      \E sizes \in BodySizes(nb), movs \in BodyMovements(nb) :
        LET b == MakeBeam(sizes, "forward")
            t == MakeTstep(sizes, "forward")
            s == split_multibody(b, t, MakeDict(movs), 0)
        IN  /\ MBdict = MakeDict(movs)
            /\ beam = b
            /\ tstep = s.tstep
            /\ MB_beam = s.MB_beam
            /\ MB_tstep = s.MB_tstep
            /\ lc_list = <<>>
            /\ raised = NoException
            /\ flat = None
            /\ LM = None
            /\ last = NoCall
            /\ calls = 0

DefineNodeDof(node_body, num_node) ==
    /\ last' = [op  |-> "define_node_dof", arg |-> <<node_body, num_node>>,
                ret |-> define_node_dof(MB_beam, node_body, num_node),
                pre |-> MB_beam]
    /\ UNCHANGED <<lcVars, mbVars, raised, calls>>

DefineFoRDof(FoR_body) ==
    /\ last' = [op  |-> "define_FoR_dof", arg |-> <<FoR_body>>,
                ret |-> define_FoR_dof(MB_beam, FoR_body),
                pre |-> MB_beam]
    /\ UNCHANGED <<lcVars, mbVars, raised, calls>>

NextDof ==
    \/ \E b \in DOMAIN MB_beam : \E n \in DOMAIN MB_beam[b].vdof : DefineNodeDof(b, n)
    \/ \E b \in DOMAIN MB_beam : DefineFoRDof(b)

SpecDof == InitDof /\ [][NextDof]_vars

\* the claimed offset of body b: the sum over the bodies before it of num_dof,
\* plus 10 for each free one
DofBefore(mb, b) ==
    SumSeq([k \in 1..b |-> mb[k-1].num_dof
                           + (IF mb[k-1].FoR_movement = "free" THEN 10 ELSE 0)])

\* C4: define_node_dof(b, n) is the sum over the bodies i < b of num_dof_i
\* (+10 if body i is free) plus 6 * vdof_b[n], define_FoR_dof(b) is the same
\* sum plus num_dof_b, and the bodies are as they were before the call
C4_DofAddressing ==
    /\ last.op = "define_node_dof" =>
          /\ last.ret = DofBefore(last.pre, last.arg[1])
                        + 6 * last.pre[last.arg[1]].vdof[last.arg[2]]
          /\ MB_beam = last.pre
    /\ last.op = "define_FoR_dof" =>
          /\ last.ret = DofBefore(last.pre, last.arg[1]) + last.pre[last.arg[1]].num_dof
          /\ MB_beam = last.pre

C4_Witness ==
    /\ last.op = "define_node_dof"
    /\ last.arg = <<2, 1>>
    /\ MB_beam[0].FoR_movement = "free"
    /\ MB_beam[1].FoR_movement = "prescribed"
    /\ last.ret = MB_beam[0].num_dof + 10 + MB_beam[1].num_dof

\* the ranges [a, a + m) and [c, c + n) do not intersect
Apart(a, m, c, n) == a + m <= c \/ c + n <= a

\* C27: for every body b, free or prescribed, the frame range
\* [define_FoR_dof(b), define_FoR_dof(b) + 10) lies inside [0, sys_size), the
\* sum over all bodies of (num_dof, +10 if free), and intersects neither the 6
\* entries at define_node_dof(b2, n) of any node of any body nor the frame
\* range of another body
C27_FrameRangeOwned ==
    last.op = "define_FoR_dof" =>
        /\ last.ret >= 0
        /\ last.ret + 10 <= DofBefore(MB_beam, Len0(MB_beam))
        /\ \A b2 \in DOMAIN MB_beam :
              /\ \A n \in DOMAIN MB_beam[b2].vdof :
                    MB_beam[b2].vdof[n] >= 0 =>
                        Apart(last.ret, 10, define_node_dof(MB_beam, b2, n), 6)
              /\ b2 # last.arg[1] =>
                    Apart(last.ret, 10, define_FoR_dof(MB_beam, b2), 10)

(***************************************************************************)
(* SpecMB: split, the solver of a body, packing, unpacking and merge, in   *)
(* any order, on systems of up to MaxMBBodies bodies                       *)
(***************************************************************************)
\* largest number of calls of a behaviour
MaxCalls == 3
\* largest step index handed to split_multibody
MaxTs == 1
\* largest number of bodies of a system that is split and merged
MaxMBBodies == 2

\* bodies of 3 and 2 nodes in turn
MBSizes(nb) == [i \in 0..(nb-1) |-> 3 - (i % 2)]

\* sys_size: the length of the flat state vectors
SysSize(sizes, movs) ==
    SumSeq([k \in 1..Len0(sizes) |->
               6 * (sizes[k-1] - 1) + (IF movs[k-1] = "free" THEN 10 ELSE 0)])

MakeFlat(n) == [q     |-> [i \in 0..(n-1) |-> 5000 + i],
                dqdt  |-> [i \in 0..(n-1) |-> 6000 + i],
                dqddt |-> [i \in 0..(n-1) |-> 7000 + i]]

InitMB ==
    \E nb \in 1..MaxMBBodies :
      \E movs \in BodyMovements(nb), layout \in {"forward", "reverse"} :
        /\ MBdict = MakeDict(movs)
        /\ beam = MakeBeam(MBSizes(nb), layout)
        /\ tstep = MakeTstep(MBSizes(nb), layout)
        /\ MB_beam = <<>>
        /\ MB_tstep = <<>>
        /\ flat = MakeFlat(SysSize(MBSizes(nb), movs))
        /\ lc_list = <<>>
        /\ raised = NoException
        /\ LM = None
        /\ last = NoCall
        /\ calls = 0

Running == raised = NoException /\ calls < MaxCalls
Splitted == MB_beam # <<>>

Split(ts) ==
    /\ Running
    /\ LET s == split_multibody(beam, tstep, MBdict, ts)
       IN  /\ MB_beam' = s.MB_beam
           /\ MB_tstep' = s.MB_tstep
           /\ tstep' = s.tstep
    /\ last' = [op |-> "split", arg |-> <<ts>>, ret |-> None, pre |-> tstep]
    /\ calls' = calls + 1
    /\ UNCHANGED <<lcVars, beam, flat, raised>>

\* the structural solver of one body: every entry of its fields and state
\* vectors moves by 1; rate says whether the quaternion rate (the last 4
\* entries of dqddt) moves too
Bump1(v) == [i \in DOMAIN v |-> v[i] + 1]
Bump2(m) == [i \in DOMAIN m |-> Bump1(m[i])]
Bump3(p) == [e \in DOMAIN p |-> Bump2(p[e])]
Advance(t, rate) ==
    [t EXCEPT !.pos = Bump2(@), !.pos_dot = Bump2(@), !.pos_ddot = Bump2(@),
              !.psi = Bump3(@), !.psi_dot = Bump3(@), !.psi_ddot = Bump3(@),
              !.q = Bump1(@), !.dqdt = Bump1(@),
              !.dqddt = IF rate THEN Bump1(@) ELSE SetLast(Bump1(@), TakeLast(@, 4)),
              !.for_pos = Bump1(@), !.for_vel = Bump1(@), !.for_acc = Bump1(@),
              !.quat = Bump1(@)]

BodySolve(ibody, rate) ==
    /\ Running /\ Splitted
    /\ MB_tstep' = [MB_tstep EXCEPT ![ibody] = Advance(@, rate)]
    /\ last' = [op |-> "solve", arg |-> <<ibody, rate>>, ret |-> None, pre |-> None]
    /\ calls' = calls + 1
    /\ UNCHANGED <<lcVars, MB_beam, beam, tstep, flat, raised>>

Pack(written) ==
    /\ Running /\ Splitted
    /\ LET r == disp_and_accel2state(MB_beam, MB_tstep, flat, written)
       IN  /\ MB_tstep' = r.MB_tstep
           /\ flat' = r.flat
    /\ last' = [op |-> "pack", arg |-> <<written>>, ret |-> None, pre |-> MB_tstep]
    /\ calls' = calls + 1
    /\ UNCHANGED <<lcVars, MB_beam, beam, tstep, raised>>

Unpack ==
    /\ Running /\ Splitted
    /\ MB_tstep' = state2disp_and_accel(flat, MB_beam, MB_tstep)
    /\ last' = [op |-> "unpack", arg |-> <<>>, ret |-> None, pre |-> MB_tstep]
    /\ calls' = calls + 1
    /\ UNCHANGED <<lcVars, MB_beam, beam, tstep, flat, raised>>

Merge ==
    /\ Running /\ Splitted
    /\ LET r == merge_multibody(MB_tstep, MB_beam, beam, tstep)
       IN  /\ tstep' = r.tstep
           /\ raised' = IF r.ok THEN NoException ELSE r.exc
    /\ last' = [op |-> "merge", arg |-> <<>>, ret |-> None, pre |-> tstep]
    /\ calls' = calls + 1
    /\ UNCHANGED <<lcVars, MB_beam, MB_tstep, beam, flat>>

NextMB ==
    \/ \E ts \in 0..MaxTs : Split(ts)
    \/ \E ibody \in DOMAIN MB_tstep, rate \in BOOLEAN : BodySolve(ibody, rate)
    \/ \E written \in {"kept", "zero"} : Pack(written)
    \/ Unpack
    \/ Merge

SpecMB == InitMB /\ [][NextMB]_vars

\* the last call was a merge_multibody that returned
MergeDone == last.op = "merge" /\ raised.type = "none"

\* sum of num_dof over the bodies before b
DofPlainBefore(mb, b) == SumSeq([k \in 1..b |-> mb[k-1].num_dof])

\* the entries [s, s + n) of the three composite state vectors are the entries
\* [0, n) of the three state vectors of body b
SegmentIs(b, s, n) ==
    /\ s + n <= Len0(tstep.q)
    /\ Slice(tstep.q, s, s + n)     = Slice(MB_tstep[b].q, 0, n)
    /\ Slice(tstep.dqdt, s, s + n)  = Slice(MB_tstep[b].dqdt, 0, n)
    /\ Slice(tstep.dqddt, s, s + n) = Slice(MB_tstep[b].dqddt, 0, n)

\* C5 (as claimed): after merge_multibody the segment of body b starts at the
\* sum over the bodies i < b of (num_dof_i + 10 if free) and holds num_dof_b + 10
\* entries of a free body, num_dof_b entries of a prescribed one
C5_SegmentsWithFrames ==
    MergeDone =>
        \A b \in DOMAIN MB_beam :
            SegmentIs(b, DofBefore(MB_beam, b),
                      MB_beam[b].num_dof
                      + (IF MB_beam[b].FoR_movement = "free" THEN 10 ELSE 0))

\* C5 (amended): after merge_multibody the segment of body b, free or
\* prescribed, starts at the sum over the bodies i < b of num_dof_i and holds
\* the num_dof_b entries of the body's q, dqdt, dqddt without their last 10
C5_SegmentsPlain ==
    MergeDone =>
        \A b \in DOMAIN MB_beam :
            SegmentIs(b, DofPlainBefore(MB_beam, b), MB_beam[b].num_dof)

C5_Witness ==
    /\ MergeDone
    /\ Len0(MB_beam) = 2
    /\ MB_beam[0].FoR_movement = "free"
    /\ MB_beam[1].FoR_movement = "free"
    /\ MB_tstep[1].q[0] >= 5000
    /\ tstep.q[MB_beam[0].num_dof] = MB_tstep[1].q[0]

\* C6: after merge_multibody returns, the last 10 entries of the composite q,
\* dqdt, dqddt and the composite for_pos, for_vel, for_acc, quat are those of
\* body 0
C6_MasterFromBody0 ==
    MergeDone =>
        /\ TakeLast(tstep.q, 10)     = TakeLast(MB_tstep[0].q, 10)
        /\ TakeLast(tstep.dqdt, 10)  = TakeLast(MB_tstep[0].dqdt, 10)
        /\ TakeLast(tstep.dqddt, 10) = TakeLast(MB_tstep[0].dqddt, 10)
        /\ tstep.for_pos = MB_tstep[0].for_pos
        /\ tstep.for_vel = MB_tstep[0].for_vel
        /\ tstep.for_acc = MB_tstep[0].for_acc
        /\ tstep.quat    = MB_tstep[0].quat

\* a merge of two bodies whose frames differ, into a composite that held
\* another frame before
C6_Witness ==
    /\ MergeDone
    /\ Len0(MB_tstep) = 2
    /\ MB_tstep[0].for_pos # MB_tstep[1].for_pos
    /\ last.pre.for_pos # tstep.for_pos
    /\ TakeLast(last.pre.q, 10) # TakeLast(tstep.q, 10)

\* C7: merge_multibody raises an AssertionError exactly when some body's stored
\* quaternion rate mb_dquatdt[i] differs from the last 4 entries of its dqddt;
\* after a merge that returns, the database rows of every body i are the
\* body's for_pos, for_vel, for_acc, quat and the last 4 entries of its dqddt
C7_MergeAssertion ==
    /\ last.op = "merge" =>
          (raised.type = "AssertionError"
             <=> \E i \in DOMAIN MB_tstep :
                     MB_tstep[i].mb_dquatdt[i] # TakeLast(MB_tstep[i].dqddt, 4))
    /\ MergeDone =>
          \A i \in DOMAIN MB_tstep :
              /\ tstep.mb_FoR_pos[i] = MB_tstep[i].for_pos
              /\ tstep.mb_FoR_vel[i] = MB_tstep[i].for_vel
              /\ tstep.mb_FoR_acc[i] = MB_tstep[i].for_acc
              /\ tstep.mb_quat[i]    = MB_tstep[i].quat
              /\ tstep.mb_dquatdt[i] = TakeLast(MB_tstep[i].dqddt, 4)

\* a merge that returned and changed database rows, the quaternion rate of
\* body 1 among them
C7_Witness ==
    /\ MergeDone
    /\ Len0(MB_tstep) >= 2
    /\ tstep.mb_FoR_vel[1] # last.pre.mb_FoR_vel[1]
    /\ tstep.mb_dquatdt[1] # last.pre.mb_dquatdt[1]

\* the composite fields split-then-merge is claimed to preserve
SameKinematics(t, u) ==
    /\ t.pos = u.pos /\ t.pos_dot = u.pos_dot /\ t.psi_dot = u.psi_dot
    /\ t.for_pos = u.for_pos /\ t.for_vel = u.for_vel
    /\ t.for_acc = u.for_acc /\ t.quat = u.quat

SameSpan(f, g, s, n) ==
    /\ Slice(f.q, s, s + n)     = Slice(g.q, s, s + n)
    /\ Slice(f.dqdt, s, s + n)  = Slice(g.dqdt, s, s + n)
    /\ Slice(f.dqddt, s, s + n) = Slice(g.dqddt, s, s + n)

\* C9: state2disp_and_accel directly followed by disp_and_accel2state gives
\* back, for every free body, the num_dof + 10 entries of its span of q, dqdt
\* and dqddt, the 4 quaternion-rate entries included
C9_UnpackPackRoundTrip ==
    [][(last.op = "unpack" /\ last'.op = "pack")
          => \A b \in DOMAIN MB_beam :
                MB_beam[b].FoR_movement = "free"
                  => SameSpan(flat', flat, DofBefore(MB_beam, b),
                              MB_beam[b].num_dof + 10)]_vars

\* unpack then pack of a system whose bodies 0 and 1 are free, the mapping
\* having zeroed the quaternion-rate entries of the bodies' own dqddt
C9_Witness ==
    /\ last.op = "pack"
    /\ last.arg = <<"zero">>
    /\ calls = 3
    /\ Len0(MB_beam) = 2
    /\ MB_beam[0].FoR_movement = "free"
    /\ MB_beam[1].FoR_movement = "free"
    /\ last.pre[0].q[0] = 5000
    /\ flat.dqddt[MB_beam[0].num_dof + 9] = 7000 + MB_beam[0].num_dof + 9

\* the number of entries of the span of body b: num_dof, +10 if b is free
SpanLen(mb, b) ==
    mb[b].num_dof + (IF mb[b].FoR_movement = "free" THEN 10 ELSE 0)

\* the entries [s, s + n) of the flat vector v are the entries [o, o + n) of w
SpanHolds(v, s, w, o, n) ==
    /\ s + n <= Len0(v)
    /\ o + n <= Len0(w)
    /\ Slice(v, s, s + n) = Slice(w, o, o + n)

\* the span of body b of the flat vectors holds the body's q and dqdt, and
\* n entries of its dqddt
BodySpanHolds(b, n) ==
    LET s == DofBefore(MB_beam, b)
    IN  /\ SpanHolds(flat.q, s, MB_tstep[b].q, 0, SpanLen(MB_beam, b))
        /\ SpanHolds(flat.dqdt, s, MB_tstep[b].dqdt, 0, SpanLen(MB_beam, b))
        /\ SpanHolds(flat.dqddt, s, MB_tstep[b].dqddt, 0, n)

\* the 10 frame entries of a free body b start at define_FoR_dof(b), the 6
\* entries of a node of b that has degrees of freedom at define_node_dof(b, n)
SpanAddressed(b) ==
    /\ MB_beam[b].FoR_movement = "free" =>
          /\ define_FoR_dof(MB_beam, b) + 10
                = DofBefore(MB_beam, b) + SpanLen(MB_beam, b)
          /\ SpanHolds(flat.q, define_FoR_dof(MB_beam, b),
                       MB_tstep[b].q, MB_beam[b].num_dof, 10)
          /\ SpanHolds(flat.dqdt, define_FoR_dof(MB_beam, b),
                       MB_tstep[b].dqdt, MB_beam[b].num_dof, 10)
          /\ SpanHolds(flat.dqddt, define_FoR_dof(MB_beam, b),
                       MB_tstep[b].dqddt, MB_beam[b].num_dof, 6)
    /\ \A n \in DOMAIN MB_beam[b].vdof :
          MB_beam[b].vdof[n] >= 0 =>
            /\ define_node_dof(MB_beam, b, n) >= DofBefore(MB_beam, b)
            /\ define_node_dof(MB_beam, b, n) + 6
                  <= DofBefore(MB_beam, b) + MB_beam[b].num_dof
            /\ SpanHolds(flat.q, define_node_dof(MB_beam, b, n),
                         MB_tstep[b].q, 6 * MB_beam[b].vdof[n], 6)
            /\ SpanHolds(flat.dqdt, define_node_dof(MB_beam, b, n),
                         MB_tstep[b].dqdt, 6 * MB_beam[b].vdof[n], 6)
            /\ SpanHolds(flat.dqddt, define_node_dof(MB_beam, b, n),
                         MB_tstep[b].dqddt, 6 * MB_beam[b].vdof[n], 6)

\* C17: disp_and_accel2state and state2disp_and_accel use the same span for
\* body b: it starts at the sum over the bodies i < b of (num_dof_i, +10 if
\* free) and holds num_dof_b entries, +10 if b is free; after either call the
\* span holds the body's q, dqdt and dqddt (after packing, dqddt without the 4
\* quaternion-rate entries of a free body); the spans tile [0, sys_size), a
\* free body's last 10 entries start at define_FoR_dof(b) and a node's 6
\* entries at define_node_dof(b, n)
C17_SameSpans ==
    last.op \in {"pack", "unpack"} =>
        /\ DofBefore(MB_beam, Len0(MB_beam)) = Len0(flat.q)
        /\ Len0(flat.dqdt) = Len0(flat.q)
        /\ Len0(flat.dqddt) = Len0(flat.q)
        /\ \A b \in DOMAIN MB_beam :
              /\ BodySpanHolds(b, IF last.op = "pack" /\ MB_beam[b].FoR_movement = "free"
                                  THEN MB_beam[b].num_dof + 6
                                  ELSE SpanLen(MB_beam, b))
              /\ SpanAddressed(b)

\* packing, then unpacking, of a free body 0 and a prescribed body 1 whose
\* states the solver had moved: the flat vectors no longer hold what they
\* held at the start
C17_Witness ==
    /\ last.op = "unpack"
    /\ calls = 3
    /\ Len0(MB_beam) = 2
    /\ MB_beam[0].FoR_movement = "free"
    /\ MB_beam[1].FoR_movement = "prescribed"
    /\ flat.q[DofBefore(MB_beam, 1)] # 5000 + DofBefore(MB_beam, 1)
    /\ MB_tstep[1].q[0] = flat.q[DofBefore(MB_beam, 1)]
    /\ flat.q[define_FoR_dof(MB_beam, 0)] # 5000 + define_FoR_dof(MB_beam, 0)



\* C18: after disp_and_accel2state the 4 entries of the flat dqddt at
\* [first_dof_b + num_dof_b + 6, first_dof_b + num_dof_b + 10) of a free body
\* b are the quaternion rate mb_dquatdt[b] the body had stored before the
\* call, whatever the mapping wrote into the body's own dqddt; the other 6
\* frame entries and all node entries are copies of the body's q, dqdt, dqddt
C18_StoredQuaternionRate ==
    last.op = "pack" =>
        \A b \in DOMAIN MB_beam :
            MB_beam[b].FoR_movement = "free" =>
                LET s == DofBefore(MB_beam, b)
                    n == MB_beam[b].num_dof
                IN  /\ s + n + 10 <= Len0(flat.dqddt)
                    /\ Slice(flat.dqddt, s + n + 6, s + n + 10)
                          = last.pre[b].mb_dquatdt[b]
                    /\ Slice(flat.dqddt, s, s + n + 6)
                          = Slice(MB_tstep[b].dqddt, 0, n + 6)
                    /\ Slice(flat.q, s, s + n + 10) = MB_tstep[b].q
                    /\ Slice(flat.dqdt, s, s + n + 10) = MB_tstep[b].dqdt

\* a packing of a free body 1 whose stored quaternion rate was not the last 4
\* entries of its dqddt, the mapping having zeroed those entries
C18_Witness ==
    /\ last.op = "pack"
    /\ last.arg = <<"zero">>
    /\ Len0(MB_beam) = 2
    /\ MB_beam[1].FoR_movement = "free"
    /\ last.pre[1].mb_dquatdt[1] # TakeLast(last.pre[1].dqddt, 4)
    /\ last.pre[1].mb_dquatdt[1] # Zeros(4)
    /\ TakeLast(MB_tstep[1].dqddt, 4) = Zeros(4)
    /\ TakeLast(flat.dqddt, 4) # Zeros(4)

\* C19: after state2disp_and_accel the cached quaternion rate mb_dquatdt[b]
\* of every free body b is the last 4 entries of the body's slice of the flat
\* dqddt and of the body's own dqddt, so that a merge_multibody directly after
\* it fails its assertion, if it does, on a body that is not free
C19_UnpackCachesRate ==
    [][/\ last'.op = "unpack" =>
            \A b \in DOMAIN MB_beam :
                MB_beam[b].FoR_movement = "free" =>
                    /\ MB_tstep'[b].mb_dquatdt[b]
                          = Slice(flat'.dqddt,
                                  DofBefore(MB_beam, b) + MB_beam[b].num_dof + 6,
                                  DofBefore(MB_beam, b) + MB_beam[b].num_dof + 10)
                    /\ MB_tstep'[b].mb_dquatdt[b] = TakeLast(MB_tstep'[b].dqddt, 4)
       /\ (last.op = "unpack" /\ last'.op = "merge") =>
            /\ raised'.type \in {"none", "AssertionError"}
            /\ raised'.type = "AssertionError" =>
                  \E b \in DOMAIN MB_beam :
                      /\ MB_beam[b].FoR_movement # "free"
                      /\ MB_tstep[b].mb_dquatdt[b] # TakeLast(MB_tstep[b].dqddt, 4)]_vars

\* split, unpack and merge of two free bodies: the merge returned, and the
\* quaternion rate of body 1 it stored is the one that came from the flat
\* dqddt, not the one the database held before
C19_Witness ==
    /\ MergeDone
    /\ calls = 3
    /\ Len0(MB_beam) = 2
    /\ MB_beam[0].FoR_movement = "free"
    /\ MB_beam[1].FoR_movement = "free"
    /\ flat.dqddt[Len0(flat.dqddt) - 1] = 7000 + Len0(flat.dqddt) - 1
    /\ tstep.mb_dquatdt[1] = TakeLast(flat.dqddt, 4)
    /\ last.pre.mb_dquatdt[1] # tstep.mb_dquatdt[1]

\* C29: when the assertion of merge_multibody fails for some body, the
\* composite system is exactly as it was before the call: no node field, state
\* vector, frame field or database row of any body has been modified
C29_FailedMergeUntouched ==
    (last.op = "merge" /\ raised.type = "AssertionError") => tstep = last.pre

\* C15: split_multibody returns the velocities pos_dot and psi_dot of every
\* body (of its state and of the ini_info and timestep_info of its beam) as
\* zeros when it is called for the first step, ts = 1, and otherwise as the
\* rows of the body in the composite system
C15_ZeroedAtFirstStepOnly ==
    last.op = "split" =>
        \A b \in DOMAIN MB_tstep :
            LET nodes == beam.body_nodes[b]
                elems == beam.body_elems[b]
                first == last.arg[1] = 1
            IN  /\ MB_tstep[b].pos_dot =
                     IF first THEN ZeroRows(GetRows(last.pre.pos_dot, nodes))
                     ELSE GetRows(last.pre.pos_dot, nodes)
                /\ MB_tstep[b].psi_dot =
                     IF first THEN ZeroPsi(GetRows(last.pre.psi_dot, elems))
                     ELSE GetRows(last.pre.psi_dot, elems)
                /\ MB_beam[b].ini_info.pos_dot =
                     IF first THEN ZeroRows(GetRows(beam.ini_info.pos_dot, nodes))
                     ELSE GetRows(beam.ini_info.pos_dot, nodes)
                /\ MB_beam[b].ini_info.psi_dot =
                     IF first THEN ZeroPsi(GetRows(beam.ini_info.psi_dot, elems))
                     ELSE GetRows(beam.ini_info.psi_dot, elems)
                /\ MB_beam[b].timestep_info.pos_dot =
                     IF first THEN ZeroRows(GetRows(beam.timestep_info.pos_dot, nodes))
                     ELSE GetRows(beam.timestep_info.pos_dot, nodes)
                /\ MB_beam[b].timestep_info.psi_dot =
                     IF first THEN ZeroPsi(GetRows(beam.timestep_info.psi_dot, elems))
                     ELSE GetRows(beam.timestep_info.psi_dot, elems)

\* a split of two bodies at step 1 of a composite system that moves: the
\* velocities of both bodies are zero, those of the composite system are not
C15_Witness ==
    /\ last.op = "split"
    /\ last.arg[1] = 1
    /\ Len0(MB_tstep) = 2
    /\ \A b \in DOMAIN MB_tstep :
         /\ MB_tstep[b].pos_dot = ZeroRows(MB_tstep[b].pos_dot)
         /\ MB_beam[b].ini_info.psi_dot = ZeroPsi(MB_beam[b].ini_info.psi_dot)
    /\ tstep.pos_dot # ZeroRows(tstep.pos_dot)
    /\ beam.ini_info.psi_dot # ZeroPsi(beam.ini_info.psi_dot)

(***************************************************************************)
(* SpecSplit: the steps of SpecMB on a composite system whose frame state  *)
(* is not the one held in row 0 of the database (the two are separate      *)
(* fields of the timestep, set independently when the system is built)     *)
(***************************************************************************)
InitSplit ==
    \E nb \in 1..MaxMBBodies :
      \E movs \in BodyMovements(nb), layout \in {"forward", "reverse"} :
        /\ MBdict = MakeDict(movs)
        /\ beam = MakeBeam(MBSizes(nb), layout)
        /\ tstep = [MakeTstep(MBSizes(nb), layout) EXCEPT
                       !.for_pos = Vec(20, 0, 6), !.for_vel = Vec(21, 0, 6),
                       !.for_acc = Vec(22, 0, 6), !.quat = Vec(23, 0, 4)]
        /\ MB_beam = <<>>
        /\ MB_tstep = <<>>
        /\ flat = MakeFlat(SysSize(MBSizes(nb), movs))
        /\ lc_list = <<>>
        /\ raised = NoException
        /\ LM = None
        /\ last = NoCall
        /\ calls = 0

SpecSplit == InitSplit /\ [][NextMB]_vars

MaxListLen == 2

ParamValue(p, kind, key) ==
    CASE key \in {"node_in_body", "node_number"} -> p.node_number
      [] key \in {"body", "body_number"}         -> p.node_body
      [] key \in {"body_FoR", "FoR_body"}        -> p.FoR_body
      [] key \in {"rot_axisB", "rot_axis_AFoR"}  -> p.rot_axis
      [] key = "rot_vel" -> IF kind = "constant_rot_vel_FoR"
                            THEN Slice(Vec(16, 0, 6), 3, 6) ELSE 7
      [] key = "vel"      -> Vec(16, 0, 6)
      \* 'velocity' of the lin_vel kinds: one constant vector (one-dimensional), or
      \* a series with one row per step 1 .. MaxTs + 1 (two-dimensional)
      [] key = "velocity" -> IF p.velocity = "constant"
                             THEN [ndim |-> 1, a |-> Vec(17, 0, 3)]
                             ELSE [ndim |-> 2, a |-> [r \in 0..MaxTs |-> Vec(17, r + 1, 3)]]

MakeEntry(p, kind) ==
    [k \in {"behaviour"} \cup Range(required_parameters(kind)) |->
        IF k = "behaviour" THEN kind ELSE ParamValue(p, kind, k)]

\* a 1-based tuple as a 0-based array
V0(t) == [i \in 0..(Len(t) - 1) |-> t[i + 1]]

\* a node of the prescribed body 0 joined to the frame of the free body 1
SchemeA == [movs |-> V0(<<"prescribed", "free">>), node_body |-> 0, node_number |-> 1,
            FoR_body |-> 1, rot_axis |-> V0(<<1, 0, 0>>),
            quat |-> V0(<< V0(<<1, 0, 0, 0>>), V0(<<0, 1, 0, 0>>) >>),
            for_pos_len |-> 6, for_vel |-> "zero", velocity |-> "constant"]

\* a node of the free body 1 joined to the frame of the free body 0
SchemeB == [movs |-> V0(<<"free", "free">>), node_body |-> 1, node_number |-> 1,
            FoR_body |-> 0, rot_axis |-> V0(<<0, 0, 1>>),
            quat |-> V0(<< V0(<<0, 0, 1, 0>>), V0(<<0, 0, 0, 1>>) >>),
            for_pos_len |-> 3, for_vel |-> "target", velocity |-> "series"]

\* a node of the free body 1 joined to the frame of the prescribed body 0
SchemeC == [movs |-> V0(<<"prescribed", "free">>), node_body |-> 1, node_number |-> 1,
            FoR_body |-> 0, rot_axis |-> V0(<<0, 1, 0>>),
            quat |-> V0(<< V0(<<1, 0, 0, 0>>), V0(<<0, 0, 1, 0>>) >>),
            for_pos_len |-> 3, for_vel |-> "kept", velocity |-> "series"]

\* a node of the prescribed body 1 joined to the frame of the prescribed body 0
SchemeD == [movs |-> V0(<<"prescribed", "prescribed">>), node_body |-> 1, node_number |-> 1,
            FoR_body |-> 0, rot_axis |-> V0(<<1, 0, 0>>),
            quat |-> V0(<< V0(<<0, 1, 0, 0>>), V0(<<1, 0, 0, 0>>) >>),
            for_pos_len |-> 3, for_vel |-> "kept", velocity |-> "constant"]

\* the specification with one entry per element of kinds (a 0-based list)
MakeSpecification(p, kinds) ==
    [EmptyDict EXCEPT !.num_constraints = Len0(kinds),
                      !.constraint = [i \in DOMAIN kinds |-> MakeEntry(p, kinds[i])]]

\* the ways one entry of a specification can be defective: its kind is not
\* registered, or one key of its kind's required_parameters is absent
Defects(kinds) ==
    {[at |-> -1, what |-> "none"]}
    \cup {[at |-> i, what |-> "kind"] : i \in DOMAIN kinds}
    \cup UNION {{[at |-> i, what |-> k] : k \in Range(required_parameters(kinds[i]))} :
                   i \in DOMAIN kinds}

Spoil(dict, d) ==
    IF d.what = "none" THEN dict
    ELSE IF d.what = "kind"
    THEN [dict EXCEPT !.constraint[d.at]["behaviour"] = UnregisteredKind]
    ELSE [dict EXCEPT !.constraint[d.at] =
              [k \in (DOMAIN @) \ {d.what} |-> @[k]]]

(***************************************************************************)
(* SpecCfg: initialize_constraints on specifications of every kind, sound  *)
(* or with one defective entry                                             *)
(***************************************************************************)
InitCfg ==
    \E n \in 0..MaxListLen :
      \E kinds \in [0..(n-1) -> dict_of_lc] :
        \E d \in Defects(kinds) :
          /\ MBdict = Spoil(MakeSpecification(SchemeA, kinds), d)
          /\ lc_list = <<>>
          /\ raised = NoException
          /\ MB_beam = <<>>
          /\ MB_tstep = <<>>
          /\ beam = None
          /\ tstep = None
          /\ flat = None
          /\ LM = None
          /\ last = NoCall
          /\ calls = 0

InitializeConstraints ==
    /\ Running
    /\ LET r == initialize_constraints(MBdict)
       IN  /\ lc_list' = IF r.ok THEN r.lc_list ELSE lc_list
           /\ raised' = IF r.ok THEN NoException ELSE r.exc
           /\ last' = [op |-> "initialize_constraints", arg |-> <<>>,
                       ret |-> r.ok, pre |-> MBdict]
    \* matrices returned for an earlier list are not those of the new list
    /\ LM' = None
    /\ UNCHANGED <<MBdict, mbVars, calls>>

NextCfg == InitializeConstraints

SpecCfg == InitCfg /\ [][NextCfg]_vars

\* an entry that names no registered kind or lacks a required parameter
UnknownKind(entry) == entry["behaviour"] \notin dict_of_lc
MissingKeys(entry) ==
    IF UnknownKind(entry) THEN {}
    ELSE Range(required_parameters(entry["behaviour"])) \ DOMAIN entry

\* C10: when an entry of the specification names a kind that is not registered
\* or lacks a key of its kind's required_parameters, initialize_constraints
\* raises and returns no list; the error (a KeyError) names the unknown kind,
\* respectively a missing key, of the first such entry
C10_InvalidRejected ==
    (last.op = "initialize_constraints") =>
        LET dict == last.pre
            bad  == {i \in DOMAIN dict.constraint :
                        \/ UnknownKind(dict.constraint[i])
                        \/ MissingKeys(dict.constraint[i]) # {}}
        IN  bad # {} =>
              LET i == CHOOSE j \in bad : \A k \in bad : j <= k
              IN  /\ ~last.ret
                  /\ lc_list = <<>>
                  /\ raised.type = "KeyError"
                  /\ IF UnknownKind(dict.constraint[i])
                     THEN raised.key = dict.constraint[i]["behaviour"]
                     ELSE raised.key \in MissingKeys(dict.constraint[i])

C10_Witness ==
    /\ last.op = "initialize_constraints"
    /\ MBdict.num_constraints = 2
    /\ MBdict.constraint[0]["behaviour"] = "free"
    /\ MBdict.constraint[1]["behaviour"] = "hinge_node_FoR_constant_vel"
    /\ "rot_vel" \notin DOMAIN MBdict.constraint[1]
    /\ raised = [type |-> "KeyError", key |-> "rot_vel"]


(***************************************************************************)
(* SpecReg: remove_constraint and initialize_constraints on sound          *)
(* specifications of up to MaxConstraints constraints                      *)
(***************************************************************************)
\* one kind for each number of equations (0, 3, 5, 6)
RegKinds == {"free", "spherical_FoR", "hinge_FoR", "constant_vel_FoR"}

InitReg ==
    \E n \in 0..MaxConstraints :
      \E kinds \in [0..(n-1) -> RegKinds] :
          /\ MBdict = MakeSpecification(SchemeA, kinds)
          /\ lc_list = <<>>
          /\ raised = NoException
          /\ MB_beam = <<>>
          /\ MB_tstep = <<>>
          /\ beam = None
          /\ tstep = None
          /\ flat = None
          /\ LM = None
          /\ last = NoCall
          /\ calls = 0

\* remove_constraint(MBdict, "constraint_%02d" % k)
RemoveConstraint(k) ==
    /\ Running
    /\ MBdict' = remove_constraint(MBdict, k)
    /\ last' = [op |-> "remove_constraint", arg |-> <<k>>, ret |-> None, pre |-> MBdict]
    /\ UNCHANGED <<lc_list, raised, LM, mbVars, calls>>

NextReg ==
    \/ InitializeConstraints
    \/ \E k \in 0..(MaxConstraints - 1) : RemoveConstraint(k)

SpecReg == InitReg /\ [][NextReg]_vars

\* the kinds of the entries of a specification, in the order of their keys
RECURSIVE KindsInKeyOrder(_, _)
KindsInKeyOrder(dict, k) ==
    IF k > MaxConstraints + 1 THEN <<>>
    ELSE (IF k \in DOMAIN dict.constraint
          THEN <<dict.constraint[k]["behaviour"]>> ELSE <<>>)
         \o KindsInKeyOrder(dict, k + 1)

\* C3: after remove_constraint(MBdict, k) on a specification with the keys
\* constraint_00 .. constraint_(N-1) and k one of them, num_constraints is N-1
\* and the next initialize_constraints returns the list of the remaining
\* constraints, whose equations are those of before less the n_eq of the
\* removed constraint
C3_RemoveThenInitialize ==
    [][(/\ last.op = "remove_constraint"
        /\ DOMAIN last.pre.constraint = 0..(last.pre.num_constraints - 1)
        /\ last.arg[1] \in DOMAIN last.pre.constraint
        /\ last'.op = "initialize_constraints")
       => /\ MBdict.num_constraints = last.pre.num_constraints - 1
          /\ raised'.type = "none"
          /\ [i \in DOMAIN lc_list' |-> lc_list'[i].lc_id] = KindsInKeyOrder(MBdict, 0)
          /\ define_num_LM_eq(lc_list')
               = SumSeq([i \in 1..last.pre.num_constraints |->
                            n_eq_of(last.pre.constraint[i-1]["behaviour"])])
                 - n_eq_of(last.pre.constraint[last.arg[1]]["behaviour"])]_vars


\* C26: remove_constraint with a key that is not in MBdict leaves MBdict as it
\* was and raises nothing, so that removing the same key twice decrements
\* num_constraints once, and num_constraints is never smaller than the number
\* of the constraint entries that are still present
C26_AbsentKeyIgnored ==
    [][/\ (last'.op = "remove_constraint"
            /\ last'.arg[1] \notin DOMAIN MBdict.constraint) =>
              /\ MBdict' = MBdict
              /\ raised' = raised
       /\ (last.op = "remove_constraint" /\ last'.op = "remove_constraint"
            /\ last'.arg = last.arg) =>
              MBdict'.num_constraints = MBdict.num_constraints
       /\ MBdict'.num_constraints >= Cardinality(DOMAIN MBdict'.constraint)]_vars

\* constraint_00 of a specification of three constraints has been removed, and
\* removed again: two constraints are left and counted
C26_Witness ==
    /\ last.op = "remove_constraint"
    /\ last.arg = <<0>>
    /\ 0 \notin DOMAIN last.pre.constraint
    /\ MBdict = last.pre
    /\ DOMAIN MBdict.constraint = {1, 2}
    /\ MBdict.num_constraints = 2


(***************************************************************************)
(* SpecAsm: initialize_constraints, generate_lagrange_matrix and single    *)
(* contributions on a system of two bodies.  The bodies are undeformed     *)
(* (psi = 0) and their frames are turned by unit quaternions.              *)
(***************************************************************************)
\* the scaling factors handed to a single contribution: the one set by
\* generate_lagrange_matrix and another one
ScalingFactors == {1, 2}

\* the lists of constraints of the model: up to MaxListLen constraints that
\* alternate between two kinds
AsmLists ==
    UNION {{[i \in 0..(n-1) |-> pr[i % 2]] : pr \in [0..1 -> dict_of_lc]} :
              n \in 0..MaxListLen}

\* the size of the structural system the solver hands over: the degrees of
\* freedom of every body and the 10 frame entries of every free body
SystemSize(mbb) ==
    SumSeq([k \in 1..Len0(mbb) |->
               mbb[k-1].num_dof + (IF mbb[k-1].FoR_movement = "free" THEN 10 ELSE 0)])

\* the system of scheme p: its bodies with unit quaternions and zero rotation
\* vectors; the frame of the constrained body is at rest (for_vel "zero"), moves
\* with the velocity the constraints prescribe ("target") or with another one
AsmSystem(p) ==
    LET sizes == MBSizes(Len0(p.movs))
        s == split_multibody(MakeBeam(sizes, "forward"), MakeTstep(sizes, "forward"),
                             MakeDict(p.movs), 0)
    IN  [MB_beam  |-> [b \in DOMAIN s.MB_beam |->
                         [s.MB_beam[b] EXCEPT
                             !.ini_info.quat = V0(<<1, 0, 0, 0>>),
                             !.ini_info.for_pos = Slice(@, 0, p.for_pos_len)]],
         MB_tstep |-> [b \in DOMAIN s.MB_tstep |->
                         [s.MB_tstep[b] EXCEPT
                             !.quat = p.quat[b],
                             !.psi = ZeroPsi(@),
                             !.for_pos = Slice(@, 0, p.for_pos_len),
                             !.for_vel = IF b # p.FoR_body \/ p.for_vel = "kept" THEN @
                                         ELSE IF p.for_vel = "zero" THEN Zeros(6)
                                         ELSE Vec(16, 0, 6)]],
         beam     |-> MakeBeam(sizes, "forward"),
         tstep    |-> s.tstep]

InitAsm ==
    \E p \in {SchemeA, SchemeB, SchemeC, SchemeD} :
        \E kinds \in AsmLists :
          LET sys == AsmSystem(p)
          IN  /\ MBdict = [MakeSpecification(p, kinds) EXCEPT !.body = MakeDict(p.movs).body]
              /\ lc_list = <<>>
              /\ raised = NoException
              /\ MB_beam = sys.MB_beam
              /\ MB_tstep = sys.MB_tstep
              /\ beam = sys.beam
              /\ tstep = sys.tstep
              /\ flat = None
              /\ LM = None
              /\ last = NoCall
              /\ calls = 0

\* the multipliers and their rates handed to the assembly by the solver
Multipliers(n) == [k \in 0..(n-1) |-> 2 * (k + 1)]

\* generate_lagrange_matrix called as the solver does, with the number of
\* equations of the list and the size of the system
GenerateLagrangeMatrix(dynamic_or_static, ts) ==
    /\ Running
    /\ last.op \in {"initialize_constraints", "remove_constraint", "solve"}
    /\ LET num_LM_eq == define_num_LM_eq(lc_list)
           sys_size  == SystemSize(MB_beam)
       IN  \E r \in {generate_lagrange_matrix(lc_list, MB_beam, MB_tstep, ts, num_LM_eq,
                          sys_size, 1, Multipliers(num_LM_eq), Multipliers(num_LM_eq),
                          dynamic_or_static)} :
             /\ lc_list' = r.lc_list
             /\ raised' = IF r.S.err = "" THEN NoException
                          ELSE [type |-> r.S.err, key |-> ""]
             /\ LM' = IF r.S.err = "" THEN r.S ELSE LM
             /\ last' = [op |-> "generate_lagrange_matrix",
                         arg |-> <<lower(dynamic_or_static), sys_size, num_LM_eq, ts>>,
                         ret |-> r.S.err = "", pre |-> lc_list]
    /\ UNCHANGED <<MBdict, mbVars, calls>>

\* staticmat or dynamicmat of the i-th constraint of the list on zero matrices
Contribution(i, mode, scalingFactor) ==
    /\ Running
    /\ last.op = "initialize_constraints"
    /\ i \in DOMAIN lc_list
    /\ LET num_LM_eq == define_num_LM_eq(lc_list)
           sys_size  == SystemSize(MB_beam)
           S0 == ZerosLM(sys_size + num_LM_eq)
       IN  \E r \in {IF mode = "static"
                      THEN staticmat(lc_list[i], S0, MB_beam, MB_tstep, 0, num_LM_eq,
                               sys_size, 1, Multipliers(num_LM_eq),
                               Multipliers(num_LM_eq), scalingFactor, 0)
                      ELSE dynamicmat(lc_list[i], S0, MB_beam, MB_tstep, 0, num_LM_eq,
                               sys_size, 1, Multipliers(num_LM_eq),
                               Multipliers(num_LM_eq), scalingFactor, 0)} :
             /\ lc_list' = [lc_list EXCEPT ![i] = r.lc]
             /\ raised' = IF r.S.err = "" THEN NoException
                          ELSE [type |-> r.S.err, key |-> ""]
             /\ LM' = IF r.S.err = "" THEN r.S ELSE LM
             /\ last' = [op |-> "contribution",
                         arg |-> <<mode, sys_size, num_LM_eq, i, scalingFactor, r.ieq>>,
                         ret |-> r.S.err = "", pre |-> lc_list]
    /\ UNCHANGED <<MBdict, mbVars, calls>>

NextAsm ==
    \/ InitializeConstraints
    \/ \E m \in {"static", "Dynamic"}, ts \in {0, MaxTs} : GenerateLagrangeMatrix(m, ts)
    \/ \E i \in 1..MaxListLen, m \in {"static", "dynamic"}, sf \in ScalingFactors :
          Contribution(i, m, sf)

SpecAsm == InitAsm /\ [][NextAsm]_vars

\* the equations lc.ieq .. lc.ieq + n_eq - 1 of a constraint
EqRange(lc) == lc.ieq .. (lc.ieq + get_n_eq(lc) - 1)

\* C1: the equation ranges handed out by initialize_constraints start at 0,
\* follow one another without gap in the order the constraints are declared,
\* are pairwise disjoint and together make up 0 .. define_num_LM_eq - 1; the
\* matrices LM_C and LM_K built by generate_lagrange_matrix are square of
\* order sys_size + define_num_LM_eq and LM_Q has that many entries
C1_RangesPartition ==
    LET n     == Len(lc_list)
        total == define_num_LM_eq(lc_list)
    IN  /\ n > 0 => lc_list[1].ieq = 0
        /\ \A i \in 1..(n-1) :
             lc_list[i+1].ieq = lc_list[i].ieq + get_n_eq(lc_list[i])
        /\ \A i, j \in 1..n :
             i < j => EqRange(lc_list[i]) \cap EqRange(lc_list[j]) = {}
        /\ UNION {EqRange(lc_list[i]) : i \in 1..n} = 0..(total - 1)
        /\ (last.op = "initialize_constraints" /\ last.ret) =>
             /\ n = last.pre.num_constraints
             /\ \A i \in 1..n :
                  lc_list[i].lc_id = last.pre.constraint[i-1]["behaviour"]
        /\ (last.op = "generate_lagrange_matrix" /\ last.ret) =>
             /\ LM.LM_C.n = last.arg[2] + total
             /\ LM.LM_K.n = last.arg[2] + total
             /\ Len0(LM.LM_Q) = last.arg[2] + total
             /\ \A p \in (DOMAIN LM.LM_C.e) \cup (DOMAIN LM.LM_K.e) :
                  p[1] < last.arg[2] + total /\ p[2] < last.arg[2] + total

\* a hinge of 5 equations followed by a spherical joint of 3: the second range
\* starts at 5 and the assembled matrices have 8 multiplier rows
C1_Witness ==
    /\ last.op = "generate_lagrange_matrix"
    /\ last.ret
    /\ Len(lc_list) = 2
    /\ lc_list[1].lc_id = "hinge_FoR" /\ lc_list[1].ieq = 0
    /\ lc_list[2].lc_id = "spherical_FoR" /\ lc_list[2].ieq = 5
    /\ LM.LM_C.n = last.arg[2] + 8
    /\ \E p \in DOMAIN LM.LM_C.e : p[1] = last.arg[2] + 7 /\ LM.LM_C.e[p] # 0

\* the entries of M that couple a multiplier with a structural unknown agree
\* with their mirror images
CouplingTransposed(M, sys_size) ==
    \A p \in DOMAIN M.e :
        ((p[1] >= sys_size) # (p[2] >= sys_size)) => At(M, p[2], p[1]) = M.e[p]

\* the entries of M that couple a multiplier with a structural unknown are
\* multiples of the scaling factor s
CouplingScaled(M, sys_size, s) ==
    \A p \in DOMAIN M.e :
        ((p[1] >= sys_size) # (p[2] >= sys_size)) => M.e[p] % s = 0

\* C2: in LM_C and in LM_K the block of the multiplier rows against the
\* structural columns and the block of the structural rows against the
\* multiplier columns are transposes of each other and carry the same
\* scalingFactor, for every kind of constraint, in the static and in the
\* dynamic mode, for one contribution added to zero matrices and for the
\* assembly of a list
C2_CouplingTransposed ==
    /\ (last.op = "contribution" /\ last.ret) =>
         /\ CouplingTransposed(LM.LM_C, last.arg[2])
         /\ CouplingTransposed(LM.LM_K, last.arg[2])
         /\ CouplingScaled(LM.LM_C, last.arg[2], last.arg[5])
         /\ CouplingScaled(LM.LM_K, last.arg[2], last.arg[5])
    /\ (last.op = "generate_lagrange_matrix" /\ last.ret) =>
         /\ CouplingTransposed(LM.LM_C, last.arg[2])
         /\ CouplingTransposed(LM.LM_K, last.arg[2])

\* the number of equations of each kind of constraint
EquationCount(kind) ==
    CASE kind = "free"                        -> 0
      [] kind = "spherical_node_FoR"          -> 3
      [] kind = "spherical_FoR"               -> 3
      [] kind = "hinge_node_FoR"              -> 5
      [] kind = "hinge_node_FoR_constant_vel" -> 6
      [] kind = "hinge_FoR"                   -> 5
      [] kind = "hinge_FoR_wrtG"              -> 5
      [] kind = "constant_rot_vel_FoR"        -> 3
      [] kind = "constant_vel_FoR"            -> 6
      [] kind = "lin_vel_node_wrtA"           -> 3
      [] kind = "lin_vel_node_wrtG"           -> 3
      [] kind = "fully_constrained_node_FoR"  -> 6

\* the kinds whose dynamicmat is a sequence of kernels
KernelKinds == {"spherical_node_FoR", "hinge_node_FoR", "hinge_node_FoR_constant_vel"}

\* C11: every constraint has the number of equations of its kind (free 0,
\* spherical 3, hinge 5, hinge with prescribed velocity 6, ...); initialise
\* returns ieq + n_eq, so each constraint starts where the one before it ends;
\* staticmat, dynamicmat and the assembly change neither n_eq nor ieq of any
\* constraint; and the kernels of a kind built from kernels (3 + 2 + 1
\* equations) leave the running index of dynamicmat at ieq + n_eq
C11_FixedEquationCount ==
    /\ \A i \in DOMAIN lc_list :
         get_n_eq(lc_list[i]) = EquationCount(lc_list[i].lc_id)
    /\ (last.op = "initialize_constraints" /\ last.ret) =>
         /\ \A i \in DOMAIN lc_list :
              lc_list[i].ieq = SumSeq([k \in 1..(i-1) |-> EquationCount(lc_list[k].lc_id)])
         /\ define_num_LM_eq(lc_list) =
              SumSeq([k \in DOMAIN lc_list |-> EquationCount(lc_list[k].lc_id)])
    /\ last.op \in {"contribution", "generate_lagrange_matrix"} =>
         /\ Len(lc_list) = Len(last.pre)
         /\ \A i \in DOMAIN lc_list :
              /\ lc_list[i].lc_id = last.pre[i].lc_id
              /\ get_n_eq(lc_list[i]) = get_n_eq(last.pre[i])
              /\ lc_list[i].ieq = last.pre[i].ieq
    /\ (last.op = "contribution" /\ last.ret /\ last.arg[1] = "dynamic"
          /\ last.pre[last.arg[4]].lc_id \in KernelKinds) =>
         last.arg[6] = last.pre[last.arg[4]].ieq
                         + EquationCount(last.pre[last.arg[4]].lc_id)

\* the dynamic contribution of a hinge with prescribed velocity that follows
\* a hinge: its kernels take the running index from 5 to 11
C11_Witness ==
    /\ last.op = "contribution"
    /\ last.ret
    /\ last.arg[1] = "dynamic"
    /\ last.arg[4] = 2
    /\ last.pre[1].lc_id = "hinge_node_FoR"
    /\ last.pre[2].lc_id = "hinge_node_FoR_constant_vel"
    /\ last.pre[2].ieq = 5
    /\ last.arg[6] = 11
    /\ get_n_eq(lc_list[2]) = 6
    /\ lc_list[2].indep # <<>>

\* the rows and columns sys_size + ieq .. sys_size + ieq + n_eq - 1 of a constraint
OwnRange(lc, sys_size) == {sys_size + k : k \in EqRange(lc)}

\* every non-zero entry of the matrices S that has a row or a column among the
\* multipliers has it in the set own
OnlyOwn(S, sys_size, own) ==
    /\ \A f \in {"LM_C", "LM_K"} : \A p \in DOMAIN S[f].e :
         S[f].e[p] # 0 =>
            /\ p[1] >= sys_size => p[1] \in own
            /\ p[2] >= sys_size => p[2] \in own
    /\ \A i \in DOMAIN S.LM_Q : (i >= sys_size /\ S.LM_Q[i] # 0) => i \in own

\* the matrices S and T have the same entries
SameMatrices(S, T) ==
    /\ S.LM_Q = T.LM_Q
    /\ \A f \in {"LM_C", "LM_K"} :
         /\ S[f].n = T[f].n
         /\ \A p \in (DOMAIN S[f].e) \cup (DOMAIN T[f].e) :
              At(S[f], p[1], p[2]) = At(T[f], p[1], p[2])

\* a list in the opposite order
Reversed(list) == [i \in DOMAIN list |-> list[Len(list) + 1 - i]]

\* C12: in any assembly, the contribution of a constraint to zero matrices has
\* non-zero entries with a row or a column among the multipliers only in the
\* rows and columns sys_size + ieq .. sys_size + ieq + n_eq - 1 of its own
\* equations; the assembled matrices have such entries only in the ranges of
\* the constraints of the list; and the assembly gives the same matrices when
\* the constraints contribute in the opposite order
C12_OwnRangeOnly ==
    /\ (last.op = "contribution" /\ last.ret) =>
         OnlyOwn(LM, last.arg[2], OwnRange(last.pre[last.arg[4]], last.arg[2]))
    /\ (last.op = "generate_lagrange_matrix" /\ last.ret) =>
         /\ OnlyOwn(LM, last.arg[2],
                    UNION {OwnRange(last.pre[i], last.arg[2]) : i \in DOMAIN last.pre})
         /\ \E r \in {generate_lagrange_matrix(Reversed(last.pre), MB_beam, MB_tstep,
                            last.arg[4], last.arg[3], last.arg[2], 1,
                            Multipliers(last.arg[3]), Multipliers(last.arg[3]),
                            last.arg[1])} :
              r.S.err = "" /\ SameMatrices(r.S, LM)

\* the velocity of the frame a constraint of a frame-velocity kind acts on,
\* less the velocity the constraint prescribes
VelocityMismatch(lc, mbt) ==
    CASE lc.lc_id = "constant_rot_vel_FoR" ->
            SubV(Slice(mbt[lc.attr["FoR_body"]].for_vel, 3, 6), lc.attr["rot_vel"])
      [] lc.lc_id = "spherical_FoR" ->
            Slice(mbt[lc.attr["body_FoR"]].for_vel, 0, 3)
      [] lc.lc_id = "constant_vel_FoR" ->
            SubV(mbt[lc.attr["FoR_body"]].for_vel, lc.attr["vel"])

\* the frame a constraint of a frame-velocity kind acts on moves as prescribed
VelocityOnTarget(lc, mbt) ==
    CASE lc.lc_id = "constant_rot_vel_FoR" ->
            Slice(mbt[lc.attr["FoR_body"]].for_vel, 3, 6) = lc.attr["rot_vel"]
      [] lc.lc_id = "spherical_FoR" ->
            Slice(mbt[lc.attr["body_FoR"]].for_vel, 0, 3) = Zeros(3)
      [] lc.lc_id = "constant_vel_FoR" ->
            mbt[lc.attr["FoR_body"]].for_vel = lc.attr["vel"]

FrameVelocityKinds == {"constant_rot_vel_FoR", "spherical_FoR", "constant_vel_FoR"}

\* the rows sys_size + ieq .. sys_size + ieq + n_eq - 1 of LM_Q
ResidualRows(S, lc, sys_size) ==
    Slice(S.LM_Q, sys_size + lc.ieq, sys_size + lc.ieq + get_n_eq(lc))

\* C13: after a dynamic assembly the rows of LM_Q of a constant_rot_vel_FoR
\* are for_vel[3:6] - rot_vel, those of a spherical_FoR are for_vel[0:3] and
\* those of a constant_vel_FoR are for_vel - vel, for_vel the velocity of the
\* frame of the constraint's body; they are all zero exactly when the frame
\* moves with the prescribed velocity
C13_ResidualIsMismatch ==
    (last.op = "generate_lagrange_matrix" /\ last.ret /\ last.arg[1] = "dynamic") =>
        \A i \in DOMAIN lc_list :
            lc_list[i].lc_id \in FrameVelocityKinds =>
              /\ ResidualRows(LM, lc_list[i], last.arg[2])
                    = VelocityMismatch(lc_list[i], MB_tstep)
              /\ (ResidualRows(LM, lc_list[i], last.arg[2]) = Zeros(get_n_eq(lc_list[i])))
                    <=> VelocityOnTarget(lc_list[i], MB_tstep)

\* the dynamic assembly of a constant_vel_FoR on a frame that moves as
\* prescribed, followed by a spherical_FoR on the same, moving, frame: six
\* zero rows and three rows that hold the linear velocity of the frame
C13_Witness ==
    /\ last.op = "generate_lagrange_matrix"
    /\ last.ret
    /\ last.arg[1] = "dynamic"
    /\ Len(lc_list) = 2
    /\ lc_list[1].lc_id = "constant_vel_FoR"
    /\ lc_list[2].lc_id = "spherical_FoR"
    /\ ResidualRows(LM, lc_list[1], last.arg[2]) = Zeros(6)
    /\ ResidualRows(LM, lc_list[2], last.arg[2]) = Slice(Vec(16, 0, 6), 0, 3)
    /\ \E k \in 0..(last.arg[2] - 1) : LM.LM_Q[k] # 0

\* the squared norm of row k of the cross-product matrix of the axis a
SkewRowNorm2(a, k) ==
    skew(a)[k][0] * skew(a)[k][0] + skew(a)[k][1] * skew(a)[k][1]
      + skew(a)[k][2] * skew(a)[k][2]

\* row k of the cross-product matrix of a is strictly shorter than both others
StrictlySmallestRow(a, k) ==
    \A j \in 0..2 : j # k => SkewRowNorm2(a, k) < SkewRowNorm2(a, j)

\* the two indices of {0, 1, 2} other than k, in ascending order
OtherRows(k) ==
    [i \in 0..1 |-> IF k = 0 THEN i + 1 ELSE IF k = 1 THEN 2 * i ELSE i]

NodeHingeKinds == {"hinge_node_FoR", "hinge_node_FoR_constant_vel"}
FrameHingeKinds == {"hinge_FoR", "hinge_FoR_wrtG"}

\* the axis of a hinge
HingeAxis(lc) ==
    IF lc.lc_id \in NodeHingeKinds THEN lc.attr["rot_axisB"] ELSE lc.attr["rot_axis"]

\* the two axis-alignment rows a frame hinge wrote into LM_C are the rows
\* rows[0] and rows[1] of the cross-product matrix of its axis, scaled
AlignmentRowsAre(S, lc, sys_size, FoR_dof, scalingFactor, rows) ==
    \A j \in 0..1, c \in 0..2 :
        At(S.LM_C, sys_size + lc.ieq + 3 + j, FoR_dof + 3 + c)
          = scalingFactor * skew(HingeAxis(lc))[rows[j]][c]

\* C20: when row k of the cross-product matrix of the axis of a hinge is
\* strictly shorter than both other rows, the rows the hinge selects are the
\* two indices of {0, 1, 2} other than k in ascending order, for hinge_node_FoR
\* and hinge_node_FoR_constant_vel (the pair kept in indep) as for hinge_FoR
\* and hinge_FoR_wrtG (the rows written into the coupling block)
C20_SmallestRowDropped ==
    (last.op = "contribution" /\ last.ret /\ last.arg[1] = "dynamic") =>
        LET lc == lc_list[last.arg[4]]
        IN  \A k \in 0..2 :
              (lc.lc_id \in NodeHingeKinds \cup FrameHingeKinds
               /\ StrictlySmallestRow(HingeAxis(lc), k)) =>
                /\ lc.lc_id \in NodeHingeKinds => lc.indep = OtherRows(k)
                /\ lc.lc_id \in FrameHingeKinds =>
                      AlignmentRowsAre(LM, lc, last.arg[2],
                          define_FoR_dof(MB_beam, lc.attr["body_FoR"]),
                          last.arg[5], OtherRows(k))

\* the dynamic contribution of a hinge_FoR_wrtG of axis (1, 0, 0) on a free
\* frame, second of the list after a hinge_node_FoR: row 0 is dropped, and the
\* first alignment row of the frame hinge is row 1, which is not zero
C20_Witness ==
    /\ last.op = "contribution"
    /\ last.ret
    /\ last.arg[1] = "dynamic"
    /\ last.arg[4] = 2
    /\ Len(lc_list) = 2
    /\ lc_list[1].lc_id = "hinge_node_FoR"
    /\ lc_list[2].lc_id = "hinge_FoR_wrtG"
    /\ StrictlySmallestRow(HingeAxis(lc_list[2]), 0)
    /\ MB_beam[lc_list[2].attr["body_FoR"]].FoR_movement = "free"
    /\ At(LM.LM_C, last.arg[2] + lc_list[2].ieq + 3,
          define_FoR_dof(MB_beam, lc_list[2].attr["body_FoR"]) + 5) = -last.arg[5]

\* the contribution the last call would have made with scalingFactor = 1
UnitContribution ==
    IF last.arg[1] = "static"
    THEN staticmat(last.pre[last.arg[4]], ZerosLM(last.arg[2] + last.arg[3]), MB_beam,
             MB_tstep, 0, last.arg[3], last.arg[2], 1, Multipliers(last.arg[3]),
             Multipliers(last.arg[3]), 1, 0)
    ELSE dynamicmat(last.pre[last.arg[4]], ZerosLM(last.arg[2] + last.arg[3]), MB_beam,
             MB_tstep, 0, last.arg[3], last.arg[2], 1, Multipliers(last.arg[3]),
             Multipliers(last.arg[3]), 1, 0)

\* C23: the residual a contribution adds to its multiplier rows
\* LM_Q[sys_size + ieq : sys_size + ieq + n_eq] is multiplied by scalingFactor:
\* the rows are scalingFactor times the rows the same contribution adds with
\* scalingFactor = 1
C23_ResidualScaled ==
    (last.op = "contribution" /\ last.ret) =>
        \A u \in {UnitContribution} :
            u.S.err = "" =>
                ResidualRows(LM, last.pre[last.arg[4]], last.arg[2])
                  = ScaleV(last.arg[5],
                           ResidualRows(u.S, last.pre[last.arg[4]], last.arg[2]))

LinVelKinds == {"lin_vel_node_wrtA", "lin_vel_node_wrtG"}

\* the kinds of the list are all in the set kinds
ListOf(list, kinds) == \A i \in DOMAIN list : list[i].lc_id \in kinds

\* C30: in static mode only lin_vel_node_wrtA and lin_vel_node_wrtG change the
\* matrices, and they never write LM_C; every other kind leaves LM_C, LM_K and
\* LM_Q as they are, and so does free in dynamic mode; the assembly of a list
\* of kinds that write nothing returns zero matrices of order sys_size +
\* num_LM_eq
C30_StaticWritesNothing ==
    /\ (last.op = "contribution" /\ last.ret /\ last.arg[1] = "static") =>
          /\ LM.LM_C = ZerosLM(last.arg[2] + last.arg[3]).LM_C
          /\ last.pre[last.arg[4]].lc_id \notin LinVelKinds =>
                LM = ZerosLM(last.arg[2] + last.arg[3])
    /\ (last.op = "contribution" /\ last.ret /\ last.arg[1] = "dynamic"
          /\ last.pre[last.arg[4]].lc_id = "free") =>
          LM = ZerosLM(last.arg[2] + last.arg[3])
    /\ (last.op = "generate_lagrange_matrix" /\ last.ret) =>
          /\ last.arg[1] = "static" =>
                LM.LM_C = ZerosLM(last.arg[2] + last.arg[3]).LM_C
          /\ (\/ last.arg[1] = "static" /\ ListOf(lc_list, dict_of_lc \ LinVelKinds)
              \/ ListOf(lc_list, {"free"})) =>
                /\ LM = ZerosLM(last.arg[2] + last.arg[3])
                /\ LM.LM_C.n = last.arg[2] + define_num_LM_eq(lc_list)
                /\ Len0(LM.LM_Q) = last.arg[2] + define_num_LM_eq(lc_list)

\* the static assembly of a hinge and a lin_vel_node_wrtA: LM_K holds the
\* block of the second, whose rows come after the 5 rows of the hinge, and
\* LM_C holds nothing
C30_Witness ==
    /\ last.op = "generate_lagrange_matrix"
    /\ last.ret
    /\ last.arg[1] = "static"
    /\ Len(lc_list) = 2
    /\ lc_list[1].lc_id = "hinge_node_FoR"
    /\ lc_list[2].lc_id = "lin_vel_node_wrtA"
    /\ LM.LM_C = ZerosLM(last.arg[2] + 8).LM_C
    /\ \E c \in 0..(last.arg[2] - 1) : At(LM.LM_K, last.arg[2] + 5, c) # 0
    /\ \A c \in 0..(last.arg[2] - 1), r \in 0..4 : At(LM.LM_K, last.arg[2] + r, c) = 0

\* the velocity of the node of a lin_vel constraint: in the frame of its body
\* (lin_vel_node_wrtA) or in the inertial frame (lin_vel_node_wrtG)
NodeVelocity(lc, mbt) ==
    LET body == lc.attr["body_number"]
        node == lc.attr["node_number"]
    IN  IF lc.lc_id = "lin_vel_node_wrtA" THEN mbt[body].pos_dot[node]
        ELSE DotMV(quat2rotation(mbt[body].quat),
                   AddV(AddV(Slice(mbt[body].for_vel, 0, 3),
                             DotMV(skew(Slice(mbt[body].for_vel, 3, 6)),
                                   mbt[body].pos[node])),
                        mbt[body].pos_dot[node]))

\* C24: the target velocity of the dynamic contribution of lin_vel_node_wrtA
\* and lin_vel_node_wrtG is the constant vector at every step when 'velocity'
\* is one-dimensional; when it is a series, the row used at step ts is the row
\* of that step, row ts - 1 of the series, which is one of its rows: no step,
\* ts = 0 included, reads a row by wrapping around to the end of the series
C24_TargetOfTheStep ==
    (last.op = "generate_lagrange_matrix" /\ last.ret /\ last.arg[1] = "dynamic") =>
        \A i \in DOMAIN lc_list :
            lc_list[i].lc_id \in LinVelKinds =>
                LET vel == lc_list[i].attr["vel"]
                    row == last.arg[4] - 1
                IN  IF vel.ndim = 1
                    THEN ResidualRows(LM, lc_list[i], last.arg[2])
                           = SubV(NodeVelocity(lc_list[i], MB_tstep), vel.a)
                    ELSE /\ row \in DOMAIN vel.a
                         /\ ResidualRows(LM, lc_list[i], last.arg[2])
                               = SubV(NodeVelocity(lc_list[i], MB_tstep), vel.a[row])

(***************************************************************************)
(* SpecStep: the steps of a simulation of three bodies in a chain: the     *)
(* frame of body 1 hangs on a node of body 0 and the frame of body 2 on a  *)
(* node of body 1.  The solver assembles the dynamic matrices, solves one  *)
(* body and assembles again or postprocesses the constraints.              *)
(***************************************************************************)
\* a node of the prescribed body 0 joined to the frame of the free body 1
LinkA == [movs |-> V0(<<"prescribed", "free", "free">>), node_body |-> 0, node_number |-> 1,
          FoR_body |-> 1, rot_axis |-> V0(<<4, -3, -2>>),
          quat |-> V0(<< V0(<<1, 0, 0, 0>>), V0(<<0, 1, 0, 0>>), V0(<<0, 0, 1, 0>>) >>),
          for_pos_len |-> 6, for_vel |-> "kept", velocity |-> "constant"]

\* a node of the free body 1 joined to the frame of the free body 2, about an axis
\* whose two largest components have the same magnitude
LinkB == [LinkA EXCEPT !.node_body = 1, !.FoR_body = 2, !.rot_axis = V0(<<1, 1, 0>>)]

InitStep ==
    \E kinds \in AsmLists, order \in {"forward", "reverse"} :
        \* the chain is declared from the root on ("forward") or from the tip on
        LET sys == AsmSystem(LinkA)
            LinkOf(k, o) == IF (IF o = "forward" THEN k ELSE k + 1) % 2 = 0
                            THEN LinkA ELSE LinkB
        IN  /\ MBdict = [MakeDict(LinkA.movs) EXCEPT
                            !.num_constraints = Len0(kinds),
                            !.constraint = [i \in DOMAIN kinds |->
                                               MakeEntry(LinkOf(i, order), kinds[i])]]
            /\ lc_list = <<>>
            /\ raised = NoException
            /\ MB_beam = sys.MB_beam
            /\ MB_tstep = sys.MB_tstep
            /\ beam = sys.beam
            /\ tstep = sys.tstep
            /\ flat = None
            /\ LM = None
            /\ last = NoCall
            /\ calls = 0

\* postprocess called by the solver on the bodies of the step
Postprocess(dynamic_or_static) ==
    /\ Running
    /\ last.op \in {"initialize_constraints", "solve"}
    /\ MB_tstep' = postprocess(lc_list, MB_beam, MB_tstep, dynamic_or_static)
    /\ last' = [op |-> "postprocess", arg |-> <<lower(dynamic_or_static)>>,
                ret |-> None, pre |-> MB_tstep]
    /\ UNCHANGED <<lcVars, MB_beam, beam, tstep, flat, raised, calls>>

NextStep ==
    \/ InitializeConstraints
    \/ GenerateLagrangeMatrix("dynamic", MaxTs)
    \* the solve follows the first assembly
    \/ \E ibody \in DOMAIN MB_tstep :
          last.op = "generate_lagrange_matrix" /\ calls = 0 /\ BodySolve(ibody, TRUE)
    \/ \E m \in {"static", "Dynamic"} : Postprocess(m)

SpecStep == InitStep /\ [][NextStep]_vars

\* the kinds that join the frame of a body to a node of another body
NodeFrameKinds == {"hinge_node_FoR", "hinge_node_FoR_constant_vel", "spherical_node_FoR"}

\* the places of the node-frame joints in a list
Joints(list) == {i \in DOMAIN list : list[i].lc_id \in NodeFrameKinds}

\* the origin of the frame of the joint's FoR body lies on the joint's node:
\* for_pos[0:3] = R(quat of the node body) * pos[node] + for_pos[0:3] of the node body
OriginOnNode(lc, mbt) ==
    LET nb == mbt[lc.attr["node_body"]]
    IN  \A c \in 0..2 :
          mbt[lc.attr["FoR_body"]].for_pos[c]
            = SumSeq([k \in 1..3 |-> quat2rotation(nb.quat)[c][k-1]
                                        * nb.pos[lc.attr["node_number"]][k-1]])
              + nb.for_pos[c]

\* body b is the same in mbt1 and mbt0 but for the first three entries of for_pos
SameButOrigin(mbt1, mbt0, b) ==
    /\ [mbt1[b] EXCEPT !.for_pos = mbt0[b].for_pos] = mbt0[b]
    /\ DOMAIN mbt1[b].for_pos = DOMAIN mbt0[b].for_pos
    /\ \A c \in DOMAIN mbt0[b].for_pos : c >= 3 => mbt1[b].for_pos[c] = mbt0[b].for_pos[c]

\* C25: postprocess changes body states only through the node-frame joints in
\* dynamic mode.  Every call leaves the specification, the list with its equation
\* indices, the bodies' structures, the matrices and the composite system as they
\* were; in static mode, and in dynamic mode on a list without node-frame joint,
\* the body states are unchanged too; in dynamic mode a body that is the FoR body
\* of no node-frame joint is unchanged, the FoR body of one changes in for_pos[0:3]
\* only, and the last node-frame joint of the list leaves the origin of its FoR
\* body at R(quat of node body) * pos[node] + for_pos[0:3] of its node body
C25_OnlyJointsWrite ==
    [][last'.op = "postprocess" =>
         /\ UNCHANGED <<MBdict, lc_list, LM, MB_beam, beam, tstep, flat, raised>>
         /\ (last'.arg[1] = "static" \/ Joints(lc_list) = {}) => MB_tstep' = MB_tstep
         /\ last'.arg[1] = "dynamic" =>
               /\ DOMAIN MB_tstep' = DOMAIN MB_tstep
               /\ \A b \in DOMAIN MB_tstep :
                     IF \E i \in Joints(lc_list) : lc_list[i].attr["FoR_body"] = b
                     THEN SameButOrigin(MB_tstep', MB_tstep, b)
                     ELSE MB_tstep'[b] = MB_tstep[b]
               /\ \A i \in Joints(lc_list) :
                     (\A j \in Joints(lc_list) : j <= i) => OriginOnNode(lc_list[i], MB_tstep')
    ]_vars

\* a dynamic postprocess of a list with a node-frame joint has moved an origin
C25_Witness ==
    /\ last.op = "postprocess" /\ last.arg = <<"dynamic">>
    /\ Joints(lc_list) # {}
    /\ MB_tstep # last.pre
    /\ \E i \in DOMAIN lc_list : i \notin Joints(lc_list)

\* C28: after postprocess in dynamic mode every node-frame joint of the list has
\* the origin of the frame of its FoR body on its node, all joints at once and in
\* every order of declaration, chains included
C28_AllJointsClosed ==
    (last.op = "postprocess" /\ last.arg = <<"dynamic">>) =>
        \A i \in Joints(lc_list) : OriginOnNode(lc_list[i], MB_tstep)

\* C22: the dynamic assembly of a list of hinges (hinge_FoR, hinge_FoR_wrtG,
\* hinge_node_FoR, hinge_node_FoR_constant_vel), whose axes are all non-zero,
\* completes without an error and leaves a row pair in every node hinge
C22_EveryAxisCompletes ==
    (/\ last.op = "generate_lagrange_matrix" /\ last.arg[1] = "dynamic"
     /\ \A i \in DOMAIN last.pre :
           /\ last.pre[i].lc_id \in NodeHingeKinds \cup FrameHingeKinds
           /\ HingeAxis(last.pre[i]) # Zeros(3)) =>
        /\ last.ret
        /\ \A i \in DOMAIN lc_list :
              lc_list[i].lc_id \in NodeHingeKinds => Len0(lc_list[i].indep) = 2

\* the node hinges of a list whose row pair is determined
Determined(list) ==
    {i \in DOMAIN list : list[i].lc_id \in NodeHingeKinds /\ Len0(list[i].indep) = 2}

\* C21: a node hinge (hinge_node_FoR, hinge_node_FoR_constant_vel) keeps the row
\* pair it has determined: a later dynamic assembly uses and leaves that pair,
\* also after a solve has changed the orientations, and the solve and the
\* postprocess leave it too; the pair is undetermined after initialise, and a
\* dynamic assembly that completes leaves it determined
C21_PairKept ==
    [][/\ last'.op \in {"generate_lagrange_matrix", "solve", "postprocess"} =>
            /\ DOMAIN lc_list' = DOMAIN lc_list
            /\ \A i \in Determined(lc_list) : lc_list'[i].indep = lc_list[i].indep
       /\ (last'.op = "initialize_constraints" /\ last'.ret) =>
            Determined(lc_list') = {}
       /\ (last'.op = "generate_lagrange_matrix" /\ last'.ret) =>
            \A i \in DOMAIN lc_list' :
               lc_list'[i].lc_id \in NodeHingeKinds => i \in Determined(lc_list')
    ]_vars

\* a dynamic assembly has completed on a node hinge whose pair an earlier assembly
\* had determined, after a solve of the node's body
C21_Witness ==
    /\ last.op = "generate_lagrange_matrix" /\ last.ret
    /\ calls > 0
    /\ \E i \in Determined(last.pre) :
          /\ lc_list[i].indep = last.pre[i].indep
          /\ MB_tstep[lc_list[i].attr["node_body"]].psi
                # ZeroPsi(MB_tstep[lc_list[i].attr["node_body"]].psi)

(***************************************************************************)
(* SpecRel: constraints released during a simulation.  The solver builds   *)
(* the list with initialize_constraints, assembles, and remove_constraint  *)
(* is called on the specification between two assemblies.                  *)
(***************************************************************************)
InitRel ==
    \E n \in 0..MaxListLen :
      \E kinds \in [0..(n-1) -> RegKinds] :
        LET sys == AsmSystem(SchemeB)
        IN  /\ MBdict = [MakeSpecification(SchemeB, kinds) EXCEPT
                            !.body = MakeDict(SchemeB.movs).body]
            /\ lc_list = <<>>
            /\ raised = NoException
            /\ MB_beam = sys.MB_beam
            /\ MB_tstep = sys.MB_tstep
            /\ beam = sys.beam
            /\ tstep = sys.tstep
            /\ flat = None
            /\ LM = None
            /\ last = NoCall
            /\ calls = 0

NextRel ==
    \/ InitializeConstraints
    \/ \E k \in 0..(MaxListLen - 1) : RemoveConstraint(k)
    \/ \E m \in {"static", "dynamic"}, ts \in {0, MaxTs} : GenerateLagrangeMatrix(m, ts)

SpecRel == InitRel /\ [][NextRel]_vars

\* the equations of the entries of a specification
EquationsOf(dict) ==
    LET keys == DOMAIN dict.constraint
    IN  SumSeq([k \in 1..MaxListLen |->
                  IF (k - 1) \in keys THEN n_eq_of(dict.constraint[k-1]["behaviour"])
                  ELSE 0])

\* C14: remove_constraint leaves the matrices assembled before it as they are,
\* and the first generate_lagrange_matrix after remove_constraint(MBdict, k),
\* k a key of the specification the list was built from, returns matrices
\* without the rows and columns of the removed constraint: their order is
\* sys_size plus the equations of the constraints that remain
C14_RemovalAtNextAssembly ==
    [][/\ last'.op = "remove_constraint" => LM' = LM
       /\ (/\ last.op = "remove_constraint"
           /\ last.arg[1] \in DOMAIN last.pre.constraint
           /\ Len(lc_list) = last.pre.num_constraints
           /\ last'.op = "generate_lagrange_matrix"
           /\ last'.ret) =>
             /\ LM'.LM_C.n = last'.arg[2] + EquationsOf(MBdict)
             /\ LM'.LM_K.n = last'.arg[2] + EquationsOf(MBdict)
             /\ Len0(LM'.LM_Q) = last'.arg[2] + EquationsOf(MBdict)]_<<last.op, MBdict>>

====
